---- MODULE Spec2Model ----
(***************************************************************************)
(* HaliSoft subscription API: the subscription lifecycle, the quota gate   *)
(* (checkSubscription, enforceQuota, hasFeatureAccess), usage recording    *)
(* (trackUsage, incrementUsage), the PayPal webhook ingestion path and the *)
(* daily quota reset job, modelled over the tables they read and write.    *)
(*                                                                         *)
(* Time is a count of ticks; DayLen ticks make a day.  Every timestamp the *)
(* model stores is a whole tick, so "pe < endOfDay(today)" (the last       *)
(* millisecond of the day) reads "pe < startOfDay(today) + DayLen".        *)
(*                                                                         *)
(* The specifications share the tables and the operators:                  *)
(*   Spec            every handler runs to its end before the next starts; *)
(*   SpecDeliveries  webhook deliveries interleaved statement by statement;*)
(*   SpecRequests    metered requests interleaved statement by statement;  *)
(*   SpecAdmin       the admin edits a plan's grants between requests;     *)
(*   SpecOwners      one owner's subscribe calls interleaved, plan changes;*)
(*   SpecPayments    activation, suspension and payment events in a row;   *)
(*   SpecJobs        the reset and warning jobs over a yearly period.      *)
(***************************************************************************)
EXTENDS Integers, Sequences, FiniteSets, TLC

\* ------------------------------------------------------------------ bounds
MaxTime == 4
DayLen == 2
MonthLen == 3
MaxUse == 2
\* The rows paypal_events and usage_tracking may hold.
MaxEvents == 1
MaxRows == 2
\* The clock's last tick while requests are served concurrently.
MaxRaceTime == 1
\* The largest amount one Record call adds.
MaxAmount == 2

\* A year, scaled down to three months.
YearLen == 3 * MonthLen

\* The 32 days getCurrentPeriodUsage looks back: the longest month and a day.
ReportWindow == MonthLen + DayLen

\* A nullable column holding no value (limit_value, current_period_start, ...).
NULL == -1

Users == {"u1"}
SubIds == {"s1", "s2"}
PlanIds == {"p1", "p2"}
Components == {"c1", "c2"}
\* The order in which plan.features is listed.
ComponentSeq == <<"c1", "c2">>
\* The order in which findMany lists subscriptions.
SubOrder == <<"s1", "s2">>
\* The requests served at once.
Workers == {"w1", "w2"}

EventTypes == {"ACTIVATED", "PAYMENT_COMPLETED", "CANCELLED", "SUSPENDED",
               "PAYMENT_FAILED", "OTHER"}
\* One event id per event type and PayPal subscription: the id stands for the
\* provider's event of that type for that subscription, redelivered at will.
EventIds == EventTypes \X SubIds

VARIABLES
    now,         \* the clock (new Date())
    features,    \* plan_features: [plan][component] -> grant
    subs,        \* subscriptions: [id] -> row (status "NONE": no such row)
    usage,       \* usage_tracking: the rows, in insertion order
    events,      \* paypal_events: [eventId] -> row
    usageUnique, \* the schema in force: usage_tracking unique on (sub, comp, periodStart) or not
    req,         \* the metered request in flight (one slot)
    recorded,    \* per (subscription, component): the trackUsage calls made in a period
    handled,     \* per event id: the times its handler was run
    workers,     \* the requests being served concurrently, each at its step
    last         \* the last operation's answer, its e-mails and the tables it found

vars == <<now, features, subs, usage, events, usageUnique, req, recorded, handled, workers,
          last>>

\* ------------------------------------------------------------ plan catalog
billingPeriod(p) == IF p = "p2" THEN "yearly" ELSE "monthly"

\* addMonths(start, 1) / addYears(start, 1)
PeriodEnd(p, start) ==
    IF billingPeriod(p) = "yearly" THEN start + YearLen ELSE start + MonthLen

NoGrant == [exists |-> FALSE, enabled |-> FALSE, limit |-> NULL]
Grant(en, lim) == [exists |-> TRUE, enabled |-> en, limit |-> lim]

\* p1 grants c1 with a limit and has c2 disabled; p2 grants c1 unbounded and has
\* no grant for c2.
SeedFeatures ==
    [p \in PlanIds |-> [c \in Components |->
        IF p = "p1" THEN (IF c = "c1" THEN Grant(TRUE, 2) ELSE Grant(FALSE, 1))
        ELSE (IF c = "c1" THEN Grant(TRUE, NULL) ELSE NoGrant)]]

\* The body of POST /api/admin/plans/:id/features: enabled and limitValue, each
\* given or left out (undefined).
Body(hasEnabled, enabled, hasLimit, limitValue) ==
    [hasEnabled |-> hasEnabled, enabled |-> enabled,
     hasLimit |-> hasLimit, limitValue |-> limitValue]

\* POST /api/admin/plans/:id/features: planFeature.upsert.
upsertFeature(ft, p, c, body) ==
    IF ~ft[p][c].exists
    THEN [ft EXCEPT ![p][c] =
            Grant(IF body.hasEnabled THEN body.enabled ELSE TRUE,
                  IF ~body.hasLimit \/ body.limitValue = NULL \/ body.limitValue = 0
                  THEN NULL ELSE body.limitValue)]
    ELSE [ft EXCEPT ![p][c].enabled = IF body.hasEnabled THEN body.enabled ELSE @,
                    ![p][c].limit = IF body.hasLimit THEN body.limitValue ELSE @]

\* planFeature.findFirst({planId, aiComponentId, enabled: true}) /
\* plan.features.find(f => f.aiComponent.slug === slug && f.enabled)
EnabledGrant(ft, p, c) == ft[p][c].exists /\ ft[p][c].enabled

\* --------------------------------------------------------- usage_tracking
\* A subscription row; status "NONE" stands for "no such row".  The row's
\* paypalSubscriptionId is the row's id (PayPal issues one per created row).
NoSub == [status |-> "NONE", userId |-> "none", planId |-> "p1",
          ps |-> NULL, pe |-> NULL, cape |-> FALSE]

UsageRow(s, c, ps, pe, v) == [sub |-> s, comp |-> c, ps |-> ps, pe |-> pe, value |-> v]

\* usageTracking.findFirst({subscriptionId, aiComponentId, periodStart, periodEnd}):
\* the rows it may return.
MatchRows(us, s, c, ps, pe) ==
    {i \in DOMAIN us : us[i].sub = s /\ us[i].comp = c /\ us[i].ps = ps /\ us[i].pe = pe}

\* The rows that collide with (s, c, ps) under the unique index.
KeyRows(us, s, c, ps) ==
    {i \in DOMAIN us : us[i].sub = s /\ us[i].comp = c /\ us[i].ps = ps}

\* getComponentUsage: every value it may return (findFirst has no ORDER BY).
UsageReads(sb, us, s, c) ==
    IF sb[s].status = "NONE" \/ sb[s].ps = NULL THEN {0}
    ELSE LET m == MatchRows(us, s, c, sb[s].ps, sb[s].pe)
         IN IF m = {} THEN {0} ELSE {us[i].value : i \in m}

\* getCurrentPeriodUsage at time t: per enabled grant of the plan, the value of
\* the first included row (rows whose periodStart lies within the last 32 days)
\* of that component whose periodStart is the subscription's, or 0; NULL for a
\* component the summary leaves out.
getCurrentPeriodUsage(ft, sb, us, s, t) ==
    [c \in Components |->
        IF ~EnabledGrant(ft, sb[s].planId, c) THEN NULL
        ELSE LET m == {i \in DOMAIN us : /\ us[i].sub = s /\ us[i].ps >= t - ReportWindow
                                         /\ us[i].comp = c /\ us[i].ps = sb[s].ps}
             IN IF m = {} THEN 0 ELSE us[CHOOSE i \in m : \A j \in m : i <= j].value]

\* initializeUsageForSubscription: one row of value 0 per enabled grant of the
\* plan, by createMany.  ok = FALSE: createMany threw (a key already there
\* under the unique index) and inserted nothing.
EnabledSeq(ft, p) == SelectSeq(ComponentSeq, LAMBDA c : EnabledGrant(ft, p, c))

initializeUsageForSubscription(ft, sb, us, uq, s, ps, pe) ==
    LET cs == EnabledSeq(ft, sb[s].planId)
        entries == [i \in 1..Len(cs) |-> UsageRow(s, cs[i], ps, pe, 0)]
        clash == uq /\ \E i \in 1..Len(cs) : KeyRows(us, s, cs[i], ps) # {}
    IN IF clash THEN [ok |-> FALSE, usage |-> us]
       ELSE [ok |-> TRUE, usage |-> us \o entries]

\* ------------------------------------------------------------- the e-mails
Mail(kind, u) == [kind |-> kind, to |-> u]

\* sendMonthlyUsageReport(userId, usageForReport)
Report(u, usageForReport) == [kind |-> "monthly_report", to |-> u, report |-> usageForReport]

\* checkQuotaWarnings: the e-mails sent after an increment, given the usage read.
QuotaMails(ft, sb, s, c, used) ==
    LET f == ft[sb[s].planId][c]
    IN IF ~f.exists \/ f.limit = NULL \/ f.limit = 0 THEN <<>>
       ELSE IF used * 100 >= 100 * f.limit THEN <<Mail("quota_exceeded", sb[s].userId)>>
       ELSE IF used * 100 >= 90 * f.limit THEN <<Mail("quota_warning_90", sb[s].userId)>>
       ELSE IF used * 100 >= 80 * f.limit THEN <<Mail("quota_warning_80", sb[s].userId)>>
       ELSE <<>>

\* ------------------------------------------------------------ the quota gate
Denied(code) == [code |-> code, used |-> NULL, limit |-> NULL, remaining |-> NULL]

\* checkSubscription with its status filter widened to the paid-for statuses.
ActiveSubsOfPaid(sb, u) ==
    {s \in SubIds : sb[s].userId = u /\ sb[s].status \in {"ACTIVE", "SUSPENDED"}}

\* checkSubscription: the ACTIVE subscriptions findFirst may return for the user.
ActiveSubsOf(sb, u) == {s \in SubIds : sb[s].userId = u /\ sb[s].status = "ACTIVE"}

\* checkSubscription leaving a day after the period's end before it denies.
PeriodExpiredAfterDay(sb, s, t) == sb[s].pe # NULL /\ t > sb[s].pe + DayLen

\* checkSubscription, once findFirst returned s: expired, or attached.
PeriodExpired(sb, s, t) == sb[s].pe # NULL /\ t > sb[s].pe

\* enforceQuota deciding on the grant's existence alone.
enforceQuotaAnyGrant(ft, sb, s, c, used) ==
    LET f == ft[sb[s].planId][c]
    IN IF ~f.exists THEN Denied("FEATURE_NOT_AVAILABLE")
       ELSE IF f.limit # NULL /\ used >= f.limit
            THEN [code |-> "QUOTA_EXCEEDED", used |-> used, limit |-> f.limit,
                  remaining |-> NULL]
            ELSE [code |-> "ALLOWED", used |-> used, limit |-> f.limit,
                  remaining |-> IF f.limit = NULL THEN NULL ELSE f.limit - used]

\* enforceQuota comparing with > in place of >=.
enforceQuotaStrict(ft, sb, s, c, used) ==
    LET f == ft[sb[s].planId][c]
    IN IF ~EnabledGrant(ft, sb[s].planId, c) THEN Denied("FEATURE_NOT_AVAILABLE")
       ELSE IF f.limit # NULL
            THEN IF used > f.limit
                 THEN [code |-> "QUOTA_EXCEEDED", used |-> used, limit |-> f.limit,
                       remaining |-> NULL]
                 ELSE [code |-> "ALLOWED", used |-> used, limit |-> f.limit,
                       remaining |-> f.limit - used]
            ELSE [code |-> "ALLOWED", used |-> used, limit |-> NULL, remaining |-> NULL]

\* enforceQuota reading a null limit as the limit 0.
enforceQuotaNullIsZero(ft, sb, s, c, used) ==
    LET f == ft[sb[s].planId][c]
        lim == IF f.limit = NULL THEN 0 ELSE f.limit
    IN IF ~EnabledGrant(ft, sb[s].planId, c) THEN Denied("FEATURE_NOT_AVAILABLE")
       ELSE IF used >= lim
            THEN [code |-> "QUOTA_EXCEEDED", used |-> used, limit |-> lim,
                  remaining |-> NULL]
            ELSE [code |-> "ALLOWED", used |-> used, limit |-> lim,
                  remaining |-> lim - used]

\* enforceQuota deciding on the grants the plans were seeded with.
enforceQuotaSeeded(ft, sb, s, c, used) ==
    LET f == SeedFeatures[sb[s].planId][c]
    IN IF ~EnabledGrant(SeedFeatures, sb[s].planId, c) THEN Denied("FEATURE_NOT_AVAILABLE")
       ELSE IF f.limit # NULL
            THEN IF used >= f.limit
                 THEN [code |-> "QUOTA_EXCEEDED", used |-> used, limit |-> f.limit,
                       remaining |-> NULL]
                 ELSE [code |-> "ALLOWED", used |-> used, limit |-> f.limit,
                       remaining |-> f.limit - used]
            ELSE [code |-> "ALLOWED", used |-> used, limit |-> NULL, remaining |-> NULL]

\* enforceQuota for the attached subscription s, given the usage it read.
enforceQuota(ft, sb, s, c, used) ==
    LET f == ft[sb[s].planId][c]
    IN IF ~EnabledGrant(ft, sb[s].planId, c) THEN Denied("FEATURE_NOT_AVAILABLE")
       ELSE IF f.limit # NULL
            THEN IF used >= f.limit
                 THEN [code |-> "QUOTA_EXCEEDED", used |-> used, limit |-> f.limit,
                       remaining |-> NULL]
                 ELSE [code |-> "ALLOWED", used |-> used, limit |-> f.limit,
                       remaining |-> f.limit - used]
            ELSE [code |-> "ALLOWED", used |-> used, limit |-> NULL, remaining |-> NULL]

\* SubscriptionService.hasFeatureAccess, given the usage it read.
hasFeatureAccess(ft, sb, s, c, used) ==
    IF sb[s].status # "ACTIVE" THEN [hasAccess |-> FALSE, limit |-> NULL, used |-> NULL]
    ELSE IF ~EnabledGrant(ft, sb[s].planId, c)
         THEN [hasAccess |-> FALSE, limit |-> NULL, used |-> NULL]
    ELSE LET f == ft[sb[s].planId][c]
         IN IF f.limit # NULL /\ used >= f.limit
            THEN [hasAccess |-> FALSE, limit |-> f.limit, used |-> used]
            ELSE [hasAccess |-> TRUE,
                  limit |-> IF f.limit = 0 THEN NULL ELSE f.limit, used |-> used]

\* isQuotaExceeded answering true only above the limit.
isQuotaExceededAbove(ft, sb, s, c, used) ==
    IF sb[s].status = "NONE" THEN TRUE
    ELSE IF ~EnabledGrant(ft, sb[s].planId, c) THEN TRUE
    ELSE IF ft[sb[s].planId][c].limit = NULL THEN FALSE
    ELSE used > ft[sb[s].planId][c].limit

\* UsageTrackingService.isQuotaExceeded, given the usage it read.
isQuotaExceeded(ft, sb, s, c, used) ==
    IF sb[s].status = "NONE" THEN TRUE
    ELSE IF ~EnabledGrant(ft, sb[s].planId, c) THEN TRUE
    ELSE IF ft[sb[s].planId][c].limit = NULL THEN FALSE
    ELSE used >= ft[sb[s].planId][c].limit

\* ------------------------------------------------------- usage recording
\* incrementUsage writing the amount over the row's value.
incrementUsageOverwrite(ft, sb, us, uq, s, c, a) ==
    IF sb[s].status = "NONE" THEN {[ok |-> FALSE, usage |-> us, sent |-> <<>>]}
    ELSE
    LET m == MatchRows(us, s, c, sb[s].ps, sb[s].pe)
    IN IF m # {}
       THEN {[ok |-> TRUE, usage |-> [us EXCEPT ![i].value = a], sent |-> <<>>] : i \in m}
       ELSE {[ok |-> TRUE, usage |-> Append(us, UsageRow(s, c, sb[s].ps, sb[s].pe, a)),
              sent |-> <<>>]}

\* incrementUsage adding 1 whatever the amount.
incrementUsageByOne(ft, sb, us, uq, s, c, a) ==
    IF sb[s].status = "NONE" \/ sb[s].ps = NULL
    THEN {[ok |-> FALSE, usage |-> us, sent |-> <<>>]}
    ELSE
    LET m == MatchRows(us, s, c, sb[s].ps, sb[s].pe)
    IN IF m # {}
       THEN {[ok |-> TRUE, usage |-> [us EXCEPT ![i].value = @ + 1], sent |-> <<>>] : i \in m}
       ELSE {[ok |-> TRUE, usage |-> Append(us, UsageRow(s, c, sb[s].ps, sb[s].pe, 1)),
              sent |-> <<>>]}

\* UsageTrackingService.incrementUsage: every outcome it may have (findFirst
\* may return any matching row).  ok = FALSE: it threw (no such subscription, or
\* a null period, which the non-null periodStart column refuses) and the caller
\* logged it.
incrementUsage(ft, sb, us, uq, s, c, a) ==
    IF sb[s].status = "NONE" \/ sb[s].ps = NULL
    THEN {[ok |-> FALSE, usage |-> us, sent |-> <<>>]}
    ELSE
    LET m == MatchRows(us, s, c, sb[s].ps, sb[s].pe)
        after == IF m # {}
                 THEN {[ok |-> TRUE, usage |-> [us EXCEPT ![i].value = @ + a]] : i \in m}
                 ELSE IF uq /\ KeyRows(us, s, c, sb[s].ps) # {}
                      THEN {[ok |-> FALSE, usage |-> us]}
                      ELSE {[ok |-> TRUE,
                             usage |-> Append(us, UsageRow(s, c, sb[s].ps, sb[s].pe, a))]}
    IN UNION {IF r.ok
              THEN {[ok |-> TRUE, usage |-> r.usage,
                     sent |-> QuotaMails(ft, sb, s, c, used)] :
                        used \in UsageReads(sb, r.usage, s, c)}
              ELSE {[ok |-> FALSE, usage |-> us, sent |-> <<>>]} : r \in after}

\* ------------------------------------------------- subscription lifecycle
Found(sb, s) == sb[s].status # "NONE"

\* activateSubscription setting the status alone.
activateSubscriptionStatusOnly(ft, sb, us, uq, s, t, paypalOk) ==
    IF ~Found(sb, s) \/ ~paypalOk
    THEN [ok |-> FALSE, subs |-> sb, usage |-> us, sent |-> <<>>]
    ELSE [ok |-> TRUE, subs |-> [sb EXCEPT ![s].status = "ACTIVE"], usage |-> us,
          sent |-> <<Mail("welcome", sb[s].userId)>>]

\* SubscriptionService.activateSubscription(paypalSubscriptionId) at time t;
\* paypalOk: paypalService.getSubscription answered.  ok = FALSE: it threw.
activateSubscription(ft, sb, us, uq, s, t, paypalOk) ==
    IF ~Found(sb, s) \/ ~paypalOk
    THEN [ok |-> FALSE, subs |-> sb, usage |-> us, sent |-> <<>>]
    ELSE LET pe == PeriodEnd(sb[s].planId, t)
             sb1 == [sb EXCEPT ![s].status = "ACTIVE", ![s].ps = t, ![s].pe = pe]
             init == initializeUsageForSubscription(ft, sb1, us, uq, s, t, pe)
         IN IF init.ok
            THEN [ok |-> TRUE, subs |-> sb1, usage |-> init.usage,
                  sent |-> <<Mail("welcome", sb[s].userId)>>]
            ELSE [ok |-> FALSE, subs |-> sb1, usage |-> us, sent |-> <<>>]

\* webhooks.ts handlePaymentCompleted (errors are caught and logged).
handlePaymentCompleted(ft, sb, us, uq, s, t) ==
    IF ~Found(sb, s) THEN [subs |-> sb, usage |-> us, sent |-> <<>>]
    ELSE LET pe == PeriodEnd(sb[s].planId, t)
             sb1 == [sb EXCEPT ![s].status = "ACTIVE", ![s].ps = t, ![s].pe = pe]
             init == initializeUsageForSubscription(ft, sb1, us, uq, s, t, pe)
         IN IF init.ok
            THEN [subs |-> sb1, usage |-> init.usage,
                  sent |-> <<Mail("payment_receipt", sb[s].userId)>>]
            ELSE [subs |-> sb1, usage |-> us, sent |-> <<>>]

\* webhooks.ts handleSubscriptionCancelled.
handleSubscriptionCancelled(sb, us, s) ==
    IF ~Found(sb, s) THEN [subs |-> sb, usage |-> us, sent |-> <<>>]
    ELSE [subs |-> [sb EXCEPT ![s].status = "CANCELLED"], usage |-> us, sent |-> <<>>]

\* webhooks.ts handleSubscriptionSuspended.
handleSubscriptionSuspended(sb, us, s) ==
    IF ~Found(sb, s) THEN [subs |-> sb, usage |-> us, sent |-> <<>>]
    ELSE [subs |-> [sb EXCEPT ![s].status = "SUSPENDED"], usage |-> us,
          sent |-> <<Mail("payment_failed", sb[s].userId)>>]

\* webhooks.ts handlePaymentFailed.
handlePaymentFailed(sb, us, s) ==
    IF ~Found(sb, s) THEN [subs |-> sb, usage |-> us, sent |-> <<>>]
    ELSE [subs |-> sb, usage |-> us, sent |-> <<Mail("payment_failed", sb[s].userId)>>]

\* The switch of POST /webhooks/paypal on event.event_type.
HandleEvent(ft, sb, us, uq, type, s, t, paypalOk) ==
    CASE type = "ACTIVATED" ->
            LET r == activateSubscription(ft, sb, us, uq, s, t, paypalOk)
            IN [subs |-> r.subs, usage |-> r.usage, sent |-> r.sent]
      [] type = "PAYMENT_COMPLETED" -> handlePaymentCompleted(ft, sb, us, uq, s, t)
      [] type = "CANCELLED" -> handleSubscriptionCancelled(sb, us, s)
      [] type = "SUSPENDED" -> handleSubscriptionSuspended(sb, us, s)
      [] type = "PAYMENT_FAILED" -> handlePaymentFailed(sb, us, s)
      [] OTHER -> [subs |-> sb, usage |-> us, sent |-> <<>>]

\* cancelSubscription writing CANCELLED whatever the immediate flag.
cancelSubscriptionNow(sb, s, immediate, paypalOk) ==
    IF ~Found(sb, s) \/ ~paypalOk THEN [ok |-> FALSE, subs |-> sb, sent |-> <<>>]
    ELSE [ok |-> TRUE,
          subs |-> [sb EXCEPT ![s].status = "CANCELLED", ![s].cape = ~immediate],
          sent |-> <<Mail("cancellation", sb[s].userId)>>]

\* SubscriptionService.cancelSubscription; paypalOk: PayPal accepted the cancel.
cancelSubscription(sb, s, immediate, paypalOk) ==
    IF ~Found(sb, s) \/ ~paypalOk THEN [ok |-> FALSE, subs |-> sb, sent |-> <<>>]
    ELSE [ok |-> TRUE,
          subs |-> [sb EXCEPT ![s].status = IF immediate THEN "CANCELLED" ELSE @,
                              ![s].cape = ~immediate],
          sent |-> <<Mail("cancellation", sb[s].userId)>>]

\* SubscriptionService.changeSubscriptionPlan for a row that holds a PayPal
\* subscription; paypalOk: PayPal accepted the cancel and the new subscription.
\* The row takes the new PayPal subscription's id: events that carry the old id
\* find no row any more.
changeSubscriptionPlan(sb, s, p, paypalOk) ==
    IF ~Found(sb, s) \/ ~paypalOk THEN [ok |-> FALSE, subs |-> sb]
    ELSE [ok |-> TRUE, subs |-> [sb EXCEPT ![s].planId = p, ![s].status = "PENDING"]]

\* payPalEvent.create({eventId, ...}): a second create of one event_id violates
\* the unique index paypal_events_event_id_key and throws (ok = FALSE).
payPalEventCreateNoIndex(ev, e) ==
    [ok |-> TRUE, events |-> [ev EXCEPT ![e] = [seen |-> TRUE, processed |-> FALSE,
                                                error |-> FALSE]]]

payPalEventCreate(ev, e) ==
    IF ev[e].seen THEN [ok |-> FALSE, events |-> ev]
    ELSE [ok |-> TRUE, events |-> [ev EXCEPT ![e] = [seen |-> TRUE, processed |-> FALSE,
                                                     error |-> FALSE]]]

\* payPalEvent.updateMany({eventId}, {processed: true, processedAt})
MarkProcessed(ev, e) == [ev EXCEPT ![e].processed = TRUE]

\* The catch block: payPalEvent.updateMany({eventId}, {processed: false, errorMessage})
MarkFailed(ev, e) ==
    IF ev[e].seen THEN [ev EXCEPT ![e].processed = FALSE, ![e].error = TRUE] ELSE ev

\* ------------------------------------------------------ the daily reset job
startOfDay(t) == t - (t % DayLen)

\* resetMonthlyQuotas: the subscriptions its findMany selects at time t.
ExpiringToday(sb, t) ==
    {s \in SubIds : sb[s].status = "ACTIVE" /\ sb[s].pe # NULL
                    /\ sb[s].pe >= startOfDay(t) /\ sb[s].pe < startOfDay(t) + DayLen}

\* The body of the job's loop for one subscription.
ResetOne(ft, sb, us, uq, s, t) ==
    LET lastPeriodUsage == getCurrentPeriodUsage(ft, sb, us, s, t)
        pe == PeriodEnd(sb[s].planId, t)
        sb1 == [sb EXCEPT ![s].ps = t, ![s].pe = pe]
        init == initializeUsageForSubscription(ft, sb1, us, uq, s, t, pe)
    IN IF init.ok
       THEN [subs |-> sb1, usage |-> init.usage,
             sent |-> <<Report(sb[s].userId, lastPeriodUsage)>>]
       ELSE [subs |-> sb1, usage |-> us, sent |-> <<>>]

\* resetMonthlyQuotas with one try around the whole loop: the first failure ends
\* the pass.
RECURSIVE ResetLoopAborting(_, _, _, _, _, _, _, _, _)
ResetLoopAborting(ft, sb, us, uq, sel, fails, t, i, mails) ==
    IF i > Len(SubOrder) THEN [subs |-> sb, usage |-> us, sent |-> mails]
    ELSE IF SubOrder[i] \in sel
         THEN IF SubOrder[i] \in fails THEN [subs |-> sb, usage |-> us, sent |-> mails]
              ELSE LET r == ResetOne(ft, sb, us, uq, SubOrder[i], t)
                   IN ResetLoopAborting(ft, r.subs, r.usage, uq, sel, fails, t, i + 1,
                                        mails \o r.sent)
         ELSE ResetLoopAborting(ft, sb, us, uq, sel, fails, t, i + 1, mails)

\* The job's loop over the selected subscriptions, in findMany's order; fails:
\* the subscriptions for which the first statement of the body throws (the
\* database refuses the read), which the catch inside the loop logs.
RECURSIVE ResetLoop(_, _, _, _, _, _, _, _, _)
ResetLoop(ft, sb, us, uq, sel, fails, t, i, mails) ==
    IF i > Len(SubOrder) THEN [subs |-> sb, usage |-> us, sent |-> mails]
    ELSE IF SubOrder[i] \in sel /\ SubOrder[i] \notin fails
         THEN LET r == ResetOne(ft, sb, us, uq, SubOrder[i], t)
              IN ResetLoop(ft, r.subs, r.usage, uq, sel, fails, t, i + 1, mails \o r.sent)
         ELSE ResetLoop(ft, sb, us, uq, sel, fails, t, i + 1, mails)

resetMonthlyQuotas(ft, sb, us, uq, t, fails) ==
    ResetLoop(ft, sb, us, uq, ExpiringToday(sb, t), fails, t, 1, <<>>)

\* ------------------------------------------------- the quota warning job
\* sendQuotaWarnings: the e-mail for one enabled, bounded feature of an ACTIVE
\* subscription, on percentage = (used / limit) * 100 (0/0 compares false with
\* every threshold, used/0 is Infinity).
WarningFor(ft, sb, us, s, c, t) ==
    LET f == ft[sb[s].planId][c]
        used == getCurrentPeriodUsage(ft, sb, us, s, t)[c]
    IN IF ~EnabledGrant(ft, sb[s].planId, c) \/ f.limit = NULL THEN <<>>
       ELSE IF f.limit = 0
            THEN (IF used > 0 THEN <<Mail("quota_exceeded", sb[s].userId)>> ELSE <<>>)
       ELSE IF used * 100 >= 100 * f.limit THEN <<Mail("quota_exceeded", sb[s].userId)>>
       ELSE IF used * 100 >= 90 * f.limit THEN <<Mail("quota_warning_90", sb[s].userId)>>
       ELSE IF used * 100 >= 80 * f.limit THEN <<Mail("quota_warning_80", sb[s].userId)>>
       ELSE <<>>

RECURSIVE FeatureLoop(_, _, _, _, _, _)
FeatureLoop(ft, sb, us, s, t, j) ==
    IF j > Len(ComponentSeq) THEN <<>>
    ELSE WarningFor(ft, sb, us, s, ComponentSeq[j], t) \o FeatureLoop(ft, sb, us, s, t, j + 1)

RECURSIVE WarningLoop(_, _, _, _, _)
WarningLoop(ft, sb, us, t, i) ==
    IF i > Len(SubOrder) THEN <<>>
    ELSE (IF sb[SubOrder[i]].status = "ACTIVE"
          THEN FeatureLoop(ft, sb, us, SubOrder[i], t, 1) ELSE <<>>)
         \o WarningLoop(ft, sb, us, t, i + 1)

\* sendQuotaWarnings: the e-mails one run of the job sends.
sendQuotaWarnings(ft, sb, us, t) == WarningLoop(ft, sb, us, t, 1)

\* ------------------------------------------------------------------ state
NoEvent == [seen |-> FALSE, processed |-> FALSE, error |-> FALSE]

\* No metered request between checkSubscription and trackUsage.
Idle == [phase |-> "idle", user |-> "none", sub |-> "none", comp |-> "none"]

\* The answer of an operation and the e-mails it sent, with the tables as the
\* operation found them; amount: the amount a Record was called with; provider:
\* whether the PayPal API answered the handler's lookup; failed: the
\* subscriptions a rollover pass failed on.
Answer(op, s, c, code, mails) ==
    [op |-> op, user |-> "none", sub |-> s, comp |-> c, code |-> code, used |-> NULL,
     limit |-> NULL, remaining |-> NULL, mails |-> mails, amount |-> NULL,
     provider |-> TRUE, failed |-> {},
     preSubs |-> subs, preUsage |-> usage, preEvents |-> events]

NoAnswer ==
    [op |-> "none", user |-> "none", sub |-> "none", comp |-> "none", code |-> "none",
     used |-> NULL, limit |-> NULL, remaining |-> NULL, mails |-> <<>>,
     amount |-> NULL, provider |-> TRUE, failed |-> {},
     preSubs |-> [s \in SubIds |-> NoSub], preUsage |-> <<>>,
     preEvents |-> [e \in EventIds |-> NoEvent]]

\* The trackUsage calls made for one (subscription, component) in the period
\* that started at ps.
NoCalls == [ps |-> NULL, n |-> 0]
CountCall(k, ps) == IF k.ps = ps THEN [k EXCEPT !.n = @ + 1] ELSE [ps |-> ps, n |-> 1]
CallsIn(k, ps) == IF k.ps = ps THEN k.n ELSE 0
\* A call with amount a counts a times.
AddCall(k, ps, a) == IF k.ps = ps THEN [k EXCEPT !.n = @ + a] ELSE [ps |-> ps, n |-> a]

\* The events whose handler opens a period at new Date().
Stamps(type) == type \in {"ACTIVATED", "PAYMENT_COMPLETED"}

\* Two handler runs never stamp the same instant on one subscription's period.
FreshStamp(s) == subs[s].ps = NULL \/ now > subs[s].ps

\* A worker serving no request.
Free == [pc |-> "idle", op |-> "none", user |-> "none", plan |-> "none", sub |-> "none",
         comp |-> "none", ps |-> NULL, pe |-> NULL, row |-> 0, mails |-> <<>>,
         status |-> "NONE", immediate |-> FALSE]

\* The migrated and seeded database, no request in flight.
InitTables ==
    /\ now = 0
    /\ features = SeedFeatures
    /\ subs = [s \in SubIds |-> NoSub]
    /\ usage = <<>>
    /\ events = [e \in EventIds |-> NoEvent]
    /\ req = Idle
    /\ recorded = [s \in SubIds |-> [c \in Components |-> NoCalls]]
    /\ handled = [e \in EventIds |-> 0]
    /\ workers = [w \in Workers |-> Free]
    /\ last = NoAnswer

Init == InitTables /\ usageUnique = FALSE

Tick(limit) ==
    /\ now < limit
    /\ now' = now + 1
    /\ last' = NoAnswer
    /\ UNCHANGED <<features, subs, usage, events, usageUnique, req, recorded, handled, workers>>

\* SubscriptionService.createSubscription for user u and plan p; paypalOk:
\* paypalService.createSubscription answered.  The new row takes the next id.
Subscribe(u, p, paypalOk, pool) ==
    /\ \E s \in pool :
         /\ subs[s].status = "NONE"
         /\ \A s2 \in pool : subs[s2].status = "NONE" => s2 = s \/ s = "s1"
         /\ IF (\E x \in SubIds : subs[x].userId = u /\ subs[x].status \in {"ACTIVE", "PENDING"})
               \/ ~paypalOk
            THEN /\ subs' = subs
                 /\ last' = Answer("subscribe", "none", "none", "error", <<>>)
            ELSE /\ subs' = [subs EXCEPT ![s] = [NoSub EXCEPT !.status = "PENDING",
                                                               !.userId = u, !.planId = p]]
                 /\ last' = Answer("subscribe", s, "none", "ok", <<>>)
    /\ UNCHANGED <<now, features, usage, events, usageUnique, req, recorded, handled, workers>>

\* POST /api/subscriptions/activate/:paypalSubscriptionId
ActivateEndpoint(s, paypalOk) ==
    /\ FreshStamp(s)
    /\ LET r == activateSubscription(features, subs, usage, usageUnique, s, now, paypalOk)
       IN /\ subs' = r.subs /\ usage' = r.usage
          /\ last' = Answer("activate", s, "none", IF r.ok THEN "ok" ELSE "error", r.sent)
    /\ Len(usage') <= MaxRows
    /\ UNCHANGED <<now, features, events, usageUnique, req, recorded, handled, workers>>

\* POST /webhooks/paypal with a valid signature, for event e = <<type, resource>>.
\* A second payPalEvent.create of the same event_id violates the unique index
\* and lands in the catch block, which answers 500.  cap: the event ids the
\* ledger may hold; rows: the rows usage_tracking may hold.
WebhookPaypalUpTo(e, paypalOk, cap, rows) ==
    /\ Stamps(e[1]) => FreshStamp(e[2])
    /\ events[e].seen \/ Cardinality({x \in EventIds : events[x].seen}) < cap
    /\ LET cr == payPalEventCreate(events, e)
       IN IF ~cr.ok
          THEN /\ events' = MarkFailed(cr.events, e)
               /\ last' = Answer(e[1], e[2], "none", "error", <<>>)
               /\ UNCHANGED <<subs, usage>>
          ELSE LET r == HandleEvent(features, subs, usage, usageUnique, e[1], e[2], now, paypalOk)
               IN /\ subs' = r.subs /\ usage' = r.usage
                  /\ last' = [Answer(e[1], e[2], "none", "received", r.sent) EXCEPT
                                  !.provider = (e[1] = "ACTIVATED" => paypalOk)]
                  /\ events' = MarkProcessed(cr.events, e)
    /\ Len(usage') <= rows
    /\ handled' = IF payPalEventCreate(events, e).ok
                  THEN [handled EXCEPT ![e] = @ + 1] ELSE handled
    /\ UNCHANGED <<now, features, usageUnique, req, recorded, workers>>

\* The deliveries while usage_tracking holds up to MaxRows rows.
WebhookPaypal(e, paypalOk, cap) == WebhookPaypalUpTo(e, paypalOk, cap, MaxRows)

\* POST /api/subscriptions/:id/cancel
UserCancel(s, immediate, paypalOk) ==
    /\ LET r == cancelSubscription(subs, s, immediate, paypalOk)
       IN /\ subs' = r.subs
          /\ last' = Answer("cancel", s, "none", IF r.ok THEN "ok" ELSE "error", r.sent)
    /\ UNCHANGED <<now, features, usage, events, usageUnique, req, recorded, handled, workers>>

\* The cron run of resetMonthlyQuotas.
RolloverPass ==
    /\ LET r == resetMonthlyQuotas(features, subs, usage, usageUnique, now, {})
       IN /\ subs' = r.subs /\ usage' = r.usage
          /\ last' = Answer("rollover", "none", "none", "ok", r.sent)
    /\ Len(usage') <= MaxRows
    /\ UNCHANGED <<now, features, events, usageUnique, req, recorded, handled, workers>>

\* The admission decision reserving the unit it admits: the counter row of the
\* period takes the increment at the gate.
AdmitReserving(u, c) ==
    /\ req.phase = "idle"
    /\ \E s \in ActiveSubsOf(subs, u) :
         /\ ~PeriodExpired(subs, s, now)
         /\ \E used \in UsageReads(subs, usage, s, c) :
              LET r == enforceQuota(features, subs, s, c, used)
                  m == MatchRows(usage, s, c, subs[s].ps, subs[s].pe)
              IN /\ last' = [Answer("admit", s, c, r.code, <<>>) EXCEPT
                                !.user = u, !.used = r.used, !.limit = r.limit,
                                !.remaining = r.remaining]
                 /\ usage' = IF r.code = "ALLOWED" /\ m # {}
                             THEN [usage EXCEPT ![CHOOSE i \in m : TRUE].value = @ + 1]
                             ELSE usage
                 /\ req' = IF r.code = "ALLOWED"
                           THEN [phase |-> "admitted", user |-> u, sub |-> s, comp |-> c]
                           ELSE req
    /\ UNCHANGED <<now, features, subs, events, usageUnique, recorded, handled, workers>>

\* A metered request of user u for component c reaches checkSubscription and
\* enforceQuota: the admission decision.
Admit(u, c) ==
    /\ req.phase = "idle"
    /\ IF ActiveSubsOf(subs, u) = {}
       THEN /\ last' = [Answer("admit", "none", c, "NO_SUBSCRIPTION", <<>>) EXCEPT
                            !.user = u]
            /\ req' = req
       ELSE \E s \in ActiveSubsOf(subs, u) :
              IF PeriodExpired(subs, s, now)
              THEN /\ last' = [Answer("admit", s, c, "SUBSCRIPTION_EXPIRED", <<>>) EXCEPT
                                   !.user = u]
                   /\ req' = req
              ELSE \E used \in UsageReads(subs, usage, s, c) :
                     LET r == enforceQuota(features, subs, s, c, used)
                     IN /\ last' = [Answer("admit", s, c, r.code, <<>>) EXCEPT
                                       !.user = u, !.used = r.used, !.limit = r.limit,
                                       !.remaining = r.remaining]
                        /\ req' = IF r.code = "ALLOWED"
                                  THEN [phase |-> "admitted", user |-> u, sub |-> s, comp |-> c]
                                  ELSE req
    /\ UNCHANGED <<now, features, subs, usage, events, usageUnique, recorded, handled,
                   workers>>

\* The component ran; the route calls trackUsage(slug, 1), which records.
ExecuteOk ==
    /\ req.phase = "admitted"
    /\ \A v \in UsageReads(subs, usage, req.sub, req.comp) : v < MaxUse
    /\ \E r \in incrementUsage(features, subs, usage, usageUnique, req.sub, req.comp, 1) :
         /\ usage' = r.usage
         /\ last' = [Answer("record", req.sub, req.comp, IF r.ok THEN "ok" ELSE "error",
                            r.sent) EXCEPT !.amount = 1]
    /\ req' = Idle
    /\ recorded' = [recorded EXCEPT ![req.sub][req.comp] = CountCall(@, subs[req.sub].ps)]
    /\ UNCHANGED <<now, features, subs, events, usageUnique, handled, workers>>

\* The route recording the use in a finally block: also when the component failed.
ExecuteFailRecording ==
    /\ req.phase = "admitted"
    /\ \A v \in UsageReads(subs, usage, req.sub, req.comp) : v < MaxUse
    /\ \E r \in incrementUsage(features, subs, usage, usageUnique, req.sub, req.comp, 1) :
         /\ usage' = r.usage
         /\ last' = Answer("failed", req.sub, req.comp, "error", <<>>)
    /\ req' = Idle
    /\ UNCHANGED <<now, features, subs, events, usageUnique, recorded, handled, workers>>

\* The component failed or the input was rejected: the route answers without
\* calling trackUsage.
ExecuteFail ==
    /\ req.phase = "admitted"
    /\ req' = Idle
    /\ last' = Answer("failed", req.sub, req.comp, "error", <<>>)
    /\ UNCHANGED <<now, features, subs, usage, events, usageUnique, recorded, handled,
                   workers>>

\* The sequential system: one owner's subscription, every handler run to its end.
SeqSubs == {"s1"}

\* The events delivered concurrently.
RaceEvents == {"ACTIVATED", "CANCELLED", "SUSPENDED"} \X SeqSubs

Next ==
    \/ Tick(MaxTime)
    \/ \E u \in Users, p \in PlanIds, ok \in BOOLEAN : Subscribe(u, p, ok, SeqSubs)
    \/ \E s \in SeqSubs, ok \in BOOLEAN : ActivateEndpoint(s, ok)
    \/ \E e \in EventTypes \X SeqSubs, ok \in BOOLEAN : WebhookPaypal(e, ok, MaxEvents)
    \/ \E s \in SeqSubs, im \in BOOLEAN, ok \in BOOLEAN : UserCancel(s, im, ok)
    \/ RolloverPass
    \/ \E u \in Users, c \in Components : Admit(u, c)
    \/ ExecuteOk
    \/ ExecuteFail

Spec == Init /\ [][Next]_vars

\* ---------------------------------------------------- concurrent requests
\* POST /api/admin/plans/:id/features
AdminSetFeature(p, c, body) ==
    /\ features' = upsertFeature(features, p, c, body)
    /\ last' = Answer("feature", "none", c, "ok", <<>>)
    /\ UNCHANGED <<now, subs, usage, events, usageUnique, req, recorded, handled, workers>>

Busy(w) == workers[w].pc # "idle"

\* A request goes to the first free worker.
FirstFree(w) == ~Busy(w) /\ (w = "w2" => Busy("w1"))

\* The answer of a request served in steps, with the e-mails it sent.
Reply(k, code, mails) ==
    [NoAnswer EXCEPT !.op = k.op, !.sub = k.sub, !.comp = k.comp, !.code = code,
                     !.mails = mails]

\* The event ids in the ledger or on their way to it.
KnownEvents ==
    {e \in EventIds : events[e].seen}
    \cup {<<workers[w].op, workers[w].sub>> : w \in {x \in Workers : workers[x].pc = "create"}}

\* POST /webhooks/paypal reaches a worker: the signature is valid.
Deliver(w, e) ==
    /\ FirstFree(w)
    /\ Cardinality(KnownEvents \cup {e}) <= MaxEvents
    /\ workers' = [workers EXCEPT ![w] = [Free EXCEPT !.pc = "create", !.op = e[1],
                                                      !.sub = e[2]]]
    /\ UNCHANGED <<now, features, subs, usage, events, usageUnique, req, recorded, handled,
                   last>>

\* prisma.payPalEvent.create: one statement, decided by the unique index.
CreateEvent(w) ==
    /\ workers[w].pc = "create"
    /\ LET e == <<workers[w].op, workers[w].sub>>
           cr == payPalEventCreate(events, e)
       IN /\ events' = cr.events
          /\ workers' = [workers EXCEPT ![w].pc = IF cr.ok THEN "handle" ELSE "catch"]
    /\ UNCHANGED <<now, features, subs, usage, usageUnique, req, recorded, handled, last>>

\* The switch on event_type runs the event's handler.
RunHandler(w, paypalOk) ==
    /\ workers[w].pc = "handle"
    /\ LET e == <<workers[w].op, workers[w].sub>>
           r == HandleEvent(features, subs, usage, usageUnique, e[1], e[2], now, paypalOk)
       IN /\ Stamps(e[1]) => FreshStamp(e[2])
          /\ subs' = r.subs /\ usage' = r.usage
          /\ handled' = [handled EXCEPT ![e] = @ + 1]
          /\ workers' = [workers EXCEPT ![w].pc = "mark", ![w].mails = r.sent]
    /\ Len(usage') <= MaxRows
    /\ UNCHANGED <<now, features, events, usageUnique, req, recorded, last>>

\* payPalEvent.updateMany processed: true, then the 200 answer.
MarkEvent(w) ==
    /\ workers[w].pc = "mark"
    /\ events' = MarkProcessed(events, <<workers[w].op, workers[w].sub>>)
    /\ last' = Reply(workers[w], "received", workers[w].mails)
    /\ workers' = [workers EXCEPT ![w] = Free]
    /\ UNCHANGED <<now, features, subs, usage, usageUnique, req, recorded, handled>>

\* The catch block: payPalEvent.updateMany processed: false, then the 500 answer.
CatchEvent(w) ==
    /\ workers[w].pc = "catch"
    /\ events' = MarkFailed(events, <<workers[w].op, workers[w].sub>>)
    /\ last' = Reply(workers[w], "error", <<>>)
    /\ workers' = [workers EXCEPT ![w] = Free]
    /\ UNCHANGED <<now, features, subs, usage, usageUnique, req, recorded, handled>>

\* A metered request of user u for component c passes checkSubscription and
\* enforceQuota on a worker and its component runs: trackUsage(slug, 1) is called.
\* cap: the requests the model serves in one period.
Request(w, u, c, cap) ==
    /\ FirstFree(w)
    /\ \E s \in ActiveSubsOf(subs, u) :
         /\ ~PeriodExpired(subs, s, now)
         /\ \E used \in UsageReads(subs, usage, s, c) :
              enforceQuota(features, subs, s, c, used).code = "ALLOWED"
         /\ CallsIn(recorded[s][c], subs[s].ps) < cap
         /\ workers' = [workers EXCEPT ![w] = [Free EXCEPT !.pc = "track", !.op = "record",
                                                          !.sub = s, !.comp = c]]
    /\ UNCHANGED <<now, features, subs, usage, events, usageUnique, req, recorded, handled,
                   last>>

\* incrementUsage: subscription.findUnique reads the period.
FindSubscription(w) ==
    /\ workers[w].pc = "track"
    /\ LET s == workers[w].sub
       IN /\ workers' = [workers EXCEPT ![w].pc = "find", ![w].ps = subs[s].ps,
                                         ![w].pe = subs[s].pe]
          /\ recorded' = [recorded EXCEPT ![s][workers[w].comp] = CountCall(@, subs[s].ps)]
    /\ UNCHANGED <<now, features, subs, usage, events, usageUnique, req, handled, last>>

\* incrementUsage: usageTracking.findFirst returns a row of the period, or none.
FindRow(w) ==
    /\ workers[w].pc = "find"
    /\ LET m == MatchRows(usage, workers[w].sub, workers[w].comp, workers[w].ps,
                          workers[w].pe)
       IN IF m = {}
          THEN workers' = [workers EXCEPT ![w].pc = "write", ![w].row = 0]
          ELSE \E i \in m : workers' = [workers EXCEPT ![w].pc = "write", ![w].row = i]
    /\ UNCHANGED <<now, features, subs, usage, events, usageUnique, req, recorded, handled,
                   last>>

\* incrementUsage: usageTracking.update({value: {increment: 1}}) on the row found,
\* or usageTracking.create with value 1, which throws on a key the unique index
\* already holds (trackUsage logs the error).
WriteRow(w) ==
    /\ workers[w].pc = "write"
    /\ LET k == workers[w]
       IN IF k.row # 0
          THEN /\ usage' = [usage EXCEPT ![k.row].value = @ + 1]
               /\ workers' = [workers EXCEPT ![w].pc = "warn"]
               /\ last' = last
          ELSE IF usageUnique /\ KeyRows(usage, k.sub, k.comp, k.ps) # {}
               THEN /\ usage' = usage
                    /\ workers' = [workers EXCEPT ![w] = Free]
                    /\ last' = Reply(k, "error", <<>>)
               ELSE /\ usage' = Append(usage, UsageRow(k.sub, k.comp, k.ps, k.pe, 1))
                    /\ workers' = [workers EXCEPT ![w].pc = "warn"]
                    /\ last' = last
    \* a row created twice may pass the cap by one
    /\ Len(usage') <= MaxRows + 1
    /\ UNCHANGED <<now, features, subs, events, usageUnique, req, recorded, handled>>

\* incrementUsage: checkQuotaWarnings reads the usage again and sends the e-mails.
WarnQuota(w) ==
    /\ workers[w].pc = "warn"
    /\ \E used \in UsageReads(subs, usage, workers[w].sub, workers[w].comp) :
         last' = Reply(workers[w], "ok",
                       QuotaMails(features, subs, workers[w].sub, workers[w].comp, used))
    /\ workers' = [workers EXCEPT ![w] = Free]
    /\ UNCHANGED <<now, features, subs, usage, events, usageUnique, req, recorded, handled>>

\* Webhook deliveries served concurrently.
NextDeliveries ==
    \/ Tick(MaxRaceTime)
    \/ \E u \in Users, p \in PlanIds : Subscribe(u, p, TRUE, SeqSubs)
    \/ \E s \in SeqSubs : ActivateEndpoint(s, TRUE)
    \/ \E w \in Workers, e \in RaceEvents : Deliver(w, e)
    \/ \E w \in Workers : CreateEvent(w)
    \/ \E w \in Workers, ok \in BOOLEAN : RunHandler(w, ok)
    \/ \E w \in Workers : MarkEvent(w)
    \/ \E w \in Workers : CatchEvent(w)

SpecDeliveries == Init /\ [][NextDeliveries]_vars

\* Metered requests served concurrently, on either build of the usage_tracking
\* table.
InitRequests == InitTables /\ usageUnique \in BOOLEAN

NextRequests ==
    \/ Tick(MaxRaceTime)
    \/ \E u \in Users, p \in PlanIds : Subscribe(u, p, TRUE, SeqSubs)
    \/ \E s \in SeqSubs : ActivateEndpoint(s, TRUE)
    \/ \E p \in PlanIds : AdminSetFeature(p, "c2", Body(TRUE, TRUE, FALSE, NULL))
    \/ \E w \in Workers, u \in Users, c \in Components : Request(w, u, c, MaxUse)
    \/ \E w \in Workers : FindSubscription(w)
    \/ \E w \in Workers : FindRow(w)
    \/ \E w \in Workers : WriteRow(w)
    \/ \E w \in Workers : WarnQuota(w)

SpecRequests == InitRequests /\ [][NextRequests]_vars

\* ------------------------------------------------------ the admin's changes
\* The bodies the admin posts: enable or disable a grant, or set its limit.
AdminBodies ==
    {Body(TRUE, en, FALSE, NULL) : en \in BOOLEAN}
    \cup {Body(FALSE, FALSE, TRUE, lim) : lim \in {NULL, 1}}

\* usageTrackingService.incrementUsage(subscriptionId, slug, amount) called by a
\* route through trackUsage(slug, amount) or directly.
Record(s, c, a) ==
    /\ req.phase = "idle"
    /\ \A v \in UsageReads(subs, usage, s, c) : v + a <= MaxUse + 1
    /\ \E r \in incrementUsage(features, subs, usage, usageUnique, s, c, a) :
         /\ usage' = r.usage
         /\ last' = [Answer("record", s, c, IF r.ok THEN "ok" ELSE "error", r.sent)
                         EXCEPT !.amount = a]
    /\ Len(usage') <= MaxRows
    /\ recorded' = IF subs[s].ps = NULL THEN recorded
                   ELSE [recorded EXCEPT ![s][c] = AddCall(@, subs[s].ps, a)]
    /\ UNCHANGED <<now, features, subs, events, usageUnique, req, handled, workers>>

\* One owner's subscription while the admin edits the grants of plan p1.
NextAdmin ==
    \/ \E u \in Users, p \in PlanIds : Subscribe(u, p, TRUE, SeqSubs)
    \/ \E s \in SeqSubs : ActivateEndpoint(s, TRUE)
    \/ \E c \in Components, body \in AdminBodies : AdminSetFeature("p1", c, body)
    \/ \E u \in Users, c \in Components : Admit(u, c)
    \/ ExecuteOk
    \/ ExecuteFail
    \/ \E s \in SeqSubs, c \in Components, a \in 1..MaxAmount : Record(s, c, a)

SpecAdmin == InitRequests /\ [][NextAdmin]_vars

\* ------------------------------------------------- concurrent subscribes
\* POST /api/subscriptions/:id/change-plan
ChangePlan(s, p, paypalOk) ==
    /\ LET r == changeSubscriptionPlan(subs, s, p, paypalOk)
       IN /\ subs' = r.subs
          /\ last' = Answer("change-plan", s, "none", IF r.ok THEN "ok" ELSE "error", <<>>)
    /\ UNCHANGED <<now, features, usage, events, usageUnique, req, recorded, handled, workers>>

\* The subscription rows not yet created.
FreeRows == {s \in SubIds : subs[s].status = "NONE"}

\* The createSubscription calls in flight.
Creating == {w \in Workers : workers[w].op = "subscribe"}

\* POST /api/subscriptions/create of user u for plan p reaches a worker.
StartSubscribe(w, u, p) ==
    /\ FirstFree(w)
    /\ Cardinality(Creating) < Cardinality(FreeRows)
    /\ workers' = [workers EXCEPT ![w] = [Free EXCEPT !.pc = "existing", !.op = "subscribe",
                                                      !.user = u, !.plan = p]]
    /\ UNCHANGED <<now, features, subs, usage, events, usageUnique, req, recorded, handled,
                   last>>

\* createSubscription: subscription.findFirst({userId, status in ACTIVE, PENDING});
\* it throws when a row is found.
FindExisting(w) ==
    /\ workers[w].pc = "existing"
    /\ IF \E x \in SubIds : /\ subs[x].userId = workers[w].user
                             /\ subs[x].status \in {"ACTIVE", "PENDING"}
       THEN /\ workers' = [workers EXCEPT ![w] = Free]
            /\ last' = Reply(workers[w], "error", <<>>)
       ELSE /\ workers' = [workers EXCEPT ![w].pc = "insert"]
            /\ last' = last
    /\ UNCHANGED <<now, features, subs, usage, events, usageUnique, req, recorded, handled>>

\* createSubscription: paypalService.createSubscription, then subscription.create
\* with status PENDING; the new row takes the next id.
InsertSubscription(w, paypalOk) ==
    /\ workers[w].pc = "insert"
    /\ IF ~paypalOk
       THEN /\ subs' = subs
            /\ last' = Reply(workers[w], "error", <<>>)
       ELSE \E s \in FreeRows :
              /\ \A s2 \in FreeRows : s2 = s \/ s = "s1"
              /\ subs' = [subs EXCEPT ![s] = [NoSub EXCEPT !.status = "PENDING",
                                                            !.userId = workers[w].user,
                                                            !.planId = workers[w].plan]]
              /\ last' = [Reply(workers[w], "ok", <<>>) EXCEPT !.sub = s]
    /\ workers' = [workers EXCEPT ![w] = Free]
    /\ UNCHANGED <<now, features, usage, events, usageUnique, req, recorded, handled>>

\* One owner subscribing twice at once, changing plan, activating and cancelling.
NextOwners ==
    \/ \E w \in Workers, u \in Users, p \in PlanIds : StartSubscribe(w, u, p)
    \/ \E w \in Workers : FindExisting(w)
    \/ \E w \in Workers, ok \in BOOLEAN : InsertSubscription(w, ok)
    \/ \E s \in SubIds, p \in PlanIds, ok \in BOOLEAN : ChangePlan(s, p, ok)
    \/ \E s \in SubIds : ActivateEndpoint(s, TRUE)
    \/ \E s \in SubIds, im \in BOOLEAN : UserCancel(s, im, TRUE)
    \/ \E e \in {"CANCELLED"} \X SubIds : WebhookPaypal(e, TRUE, MaxEvents)

SpecOwners == Init /\ [][NextOwners]_vars

\* ------------------------------------------------------ the payment events
\* The events PayPal sends about a subscription's payments.
PaymentEvents == {"SUSPENDED", "PAYMENT_FAILED", "PAYMENT_COMPLETED"} \X SeqSubs

\* One owner's subscription through its activation, a failed and a completed
\* payment.
NextPayments ==
    \/ Tick(MaxRaceTime)
    \/ \E u \in Users, p \in PlanIds : Subscribe(u, p, TRUE, SeqSubs)
    \/ \E s \in SeqSubs : ActivateEndpoint(s, TRUE)
    \/ \E s \in SeqSubs, ok \in BOOLEAN :
          WebhookPaypal(<<"ACTIVATED", s>>, ok, MaxEvents + 1)
    \/ \E e \in PaymentEvents : WebhookPaypal(e, TRUE, MaxEvents + 1)
    \/ \E u \in Users, c \in Components : Admit(u, c)
    \/ ExecuteOk

SpecPayments == Init /\ [][NextPayments]_vars

\* ------------------------------------------------------- the periodic jobs
\* The clock's last tick while a yearly period runs to its end.
MaxYearTime == YearLen + DayLen

\* The cron run of sendQuotaWarnings (every 6 hours).
WarningPass ==
    /\ last' = Answer("warnings", "none", "none", "ok",
                      sendQuotaWarnings(features, subs, usage, now))
    /\ UNCHANGED <<now, features, subs, usage, events, usageUnique, req, recorded, handled,
                   workers>>

\* One owner's subscription over a whole yearly period, with the cron jobs.
NextJobs ==
    \/ Tick(MaxYearTime)
    \/ \E u \in Users, p \in PlanIds : Subscribe(u, p, TRUE, SeqSubs)
    \/ \E s \in SeqSubs : ActivateEndpoint(s, TRUE)
    \/ RolloverPass
    \/ WarningPass
    \/ \E u \in Users, c \in Components : Admit(u, c)
    \/ ExecuteOk

SpecJobs == Init /\ [][NextJobs]_vars

\* ------------------------------------------------------------ the quota gate
\* The last operation was an Admit that attached a subscription and reached
\* enforceQuota.
GateReached ==
    last.op = "admit" /\ last.sub \in SubIds /\ last.code # "SUBSCRIPTION_EXPIRED"

\* The counter values a subscription's current period may hold in this model.
Values == 0..(MaxUse + 1)

\* The grant enforceQuota decided on.
GateGrant == features[subs[last.sub].planId][last.comp]

\* C1: a request of an owner none of whose subscriptions is ACTIVE is denied
\* (NO_SUBSCRIPTION) for every component, a request is admitted only on an ACTIVE
\* subscription of its owner, and hasFeatureAccess answers hasAccess = false for
\* every subscription that is not ACTIVE, whatever the usage and the limit.
C1_NonActiveDenied ==
    /\ last.op = "admit" =>
         /\ (last.code = "ALLOWED" =>
               /\ last.sub \in SubIds
               /\ subs[last.sub].status = "ACTIVE"
               /\ subs[last.sub].userId = last.user)
         /\ ((\A s \in SubIds : subs[s].userId = last.user => subs[s].status # "ACTIVE") =>
               last.code = "NO_SUBSCRIPTION")
    /\ \A s \in SubIds, c \in Components, used \in Values :
         subs[s].status # "ACTIVE" =>
             ~hasFeatureAccess(features, subs, s, c, used).hasAccess

\* A request was denied while its owner holds a SUSPENDED subscription whose
\* plan grants the component, whose period has not ended and whose usage is 0.
C1_Witness ==
    /\ last.op = "admit" /\ last.code = "NO_SUBSCRIPTION" /\ last.comp = "c1"
    /\ \E s \in SubIds :
         /\ subs[s].userId = last.user /\ subs[s].status = "SUSPENDED"
         /\ ~PeriodExpired(subs, s, now)
         /\ 0 \in UsageReads(subs, usage, s, "c1")

\* C2: when the plan of the attached ACTIVE subscription has no grant for the
\* component, or a grant with enabled = false, enforceQuota denies with
\* FEATURE_NOT_AVAILABLE and hasFeatureAccess answers hasAccess = false, for
\* every value of the usage counter.
C2_FeatureNotInPlan ==
    /\ GateReached /\ ~EnabledGrant(features, subs[last.sub].planId, last.comp) =>
         last.code = "FEATURE_NOT_AVAILABLE"
    /\ \A s \in SubIds, c \in Components, used \in Values :
         subs[s].status = "ACTIVE" /\ ~EnabledGrant(features, subs[s].planId, c) =>
             /\ enforceQuota(features, subs, s, c, used).code = "FEATURE_NOT_AVAILABLE"
             /\ ~hasFeatureAccess(features, subs, s, c, used).hasAccess

\* A request for c2 was denied FEATURE_NOT_AVAILABLE on the plan that holds a
\* disabled grant for it.
C2_Witness ==
    /\ GateReached /\ last.code = "FEATURE_NOT_AVAILABLE" /\ last.comp = "c2"
    /\ subs[last.sub].status = "ACTIVE"
    /\ GateGrant.exists /\ ~GateGrant.enabled

\* C3: for the attached ACTIVE subscription and an enabled grant of limit L,
\* enforceQuota denies with QUOTA_EXCEEDED (carrying used and limit) exactly when
\* the value it read for the current period is >= L, and otherwise allows with
\* remaining = L - value; a Record(1) made at value v leaves the value v + 1.
C3_QuotaBoundary ==
    /\ GateReached /\ EnabledGrant(features, subs[last.sub].planId, last.comp)
       /\ GateGrant.limit # NULL =>
         /\ last.used \in UsageReads(subs, usage, last.sub, last.comp)
         /\ last.limit = GateGrant.limit
         /\ (last.used >= GateGrant.limit <=> last.code = "QUOTA_EXCEEDED")
         /\ (last.used < GateGrant.limit <=>
                last.code = "ALLOWED" /\ last.remaining = GateGrant.limit - last.used)
    /\ last.op = "record" /\ last.code = "ok" =>
         \A v \in UsageReads(last.preSubs, last.preUsage, last.sub, last.comp) :
             UsageReads(subs, usage, last.sub, last.comp) = {v + 1}

\* A request was denied QUOTA_EXCEEDED at value = limit = 2.
C3_Witness ==
    /\ GateReached /\ last.code = "QUOTA_EXCEEDED"
    /\ last.used = last.limit /\ last.limit = 2
    /\ subs[last.sub].status = "ACTIVE"

\* C4: in the sequential system, for a subscription whose plan grants a
\* component with limit L, the value read for the current period is the number n
\* of Admit + Record(1) cycles completed in it (0 right after activation), every
\* Admit at n < L is allowed, n never passes L, and the Admit at n = L is denied
\* with QUOTA_EXCEEDED carrying used = L and limit = L.
C4_SequentialCycles ==
    \A s \in SubIds, c \in Components :
        LET f == features[subs[s].planId][c]
            n == CallsIn(recorded[s][c], subs[s].ps)
        IN subs[s].status # "NONE" /\ subs[s].ps # NULL
           /\ EnabledGrant(features, subs[s].planId, c) /\ f.limit # NULL =>
             /\ UsageReads(subs, usage, s, c) = {n}
             /\ n <= f.limit
             /\ GateReached /\ last.sub = s /\ last.comp = c =>
                  /\ (n < f.limit => last.code = "ALLOWED")
                  /\ (n = f.limit => /\ last.code = "QUOTA_EXCEEDED"
                                     /\ last.used = f.limit /\ last.limit = f.limit)

\* The Admit after 2 completed cycles of the first period of a subscription of
\* limit 2 was denied.
C4_Witness ==
    /\ GateReached /\ last.code = "QUOTA_EXCEEDED" /\ last.used = 2 /\ last.limit = 2
    /\ Len(usage) = 1
    /\ recorded[last.sub][last.comp] = [ps |-> subs[last.sub].ps, n |-> 2]

\* C5: for the attached ACTIVE subscription and an enabled grant whose limit is
\* null, enforceQuota allows with remaining = null, hasFeatureAccess answers
\* hasAccess = true and isQuotaExceeded answers false, for every value of the
\* usage counter.
C5_UnboundedGrant ==
    /\ GateReached /\ EnabledGrant(features, subs[last.sub].planId, last.comp)
       /\ GateGrant.limit = NULL =>
         last.code = "ALLOWED" /\ last.remaining = NULL /\ last.limit = NULL
    /\ \A s \in SubIds, c \in Components, used \in Values :
         (/\ subs[s].status = "ACTIVE"
          /\ EnabledGrant(features, subs[s].planId, c)
          /\ features[subs[s].planId][c].limit = NULL) =>
             /\ enforceQuota(features, subs, s, c, used).code = "ALLOWED"
             /\ enforceQuota(features, subs, s, c, used).remaining = NULL
             /\ hasFeatureAccess(features, subs, s, c, used).hasAccess
             /\ ~isQuotaExceeded(features, subs, s, c, used)

\* A request was allowed on the unbounded grant after MaxUse recorded uses.
C5_Witness ==
    /\ GateReached /\ last.code = "ALLOWED" /\ last.remaining = NULL
    /\ GateGrant.enabled /\ GateGrant.limit = NULL
    /\ last.used = MaxUse
    /\ CallsIn(recorded[last.sub][last.comp], subs[last.sub].ps) = MaxUse

\* ------------------------------------------------------- webhook ingestion
\* The last operation was a delivery of event <<last.op, last.sub>>.
Delivered == last.op \in EventTypes

\* ... of an event id the ledger already held.
Redelivered == Delivered /\ last.preEvents[<<last.op, last.sub>>].seen

\* C6: a delivery of an event id that the ledger already holds leaves every
\* subscription row (status, period, cancelAtPeriodEnd) and every usage row as it
\* found them: delivering an event twice leaves what delivering it once left.
C6_RedeliveryChangesNothing ==
    Redelivered => subs = last.preSubs /\ usage = last.preUsage

\* An activation event was delivered again, later than the period it opened and
\* after usage was recorded in it.
C6_Witness ==
    /\ Redelivered /\ last.op = "ACTIVATED"
    /\ subs[last.sub].status = "ACTIVE" /\ now > subs[last.sub].ps
    /\ \E v \in UsageReads(subs, usage, last.sub, "c1") : v > 0

\* C7: the first delivery of a cancellation event for an ACTIVE or SUSPENDED
\* subscription moves it to CANCELLED and sends its owner exactly one
\* notification; a second delivery of that event changes nothing and sends none.
C7_OneTransitionOneNotification ==
    last.op = "CANCELLED" /\ last.preSubs[last.sub].status \in {"ACTIVE", "SUSPENDED"} =>
        IF Redelivered
        THEN subs = last.preSubs /\ last.mails = <<>>
        ELSE /\ subs[last.sub].status = "CANCELLED"
             /\ Len(last.mails) = 1 /\ last.mails[1].to = subs[last.sub].userId

\* The workers whose delivery of event id e passed payPalEvent.create and went
\* on to the handler.
Proceeding(e) ==
    {w \in Workers : /\ workers[w].pc \in {"handle", "mark"}
                     /\ <<workers[w].op, workers[w].sub>> = e}

\* C8: of the deliveries of one event id served concurrently, at most one passes
\* the ledger's create and goes on to the handler, and the handler of an event
\* id is run at most once.
C8_OneDeliveryProceeds ==
    \A e \in EventIds :
        /\ Cardinality(Proceeding(e)) <= 1
        /\ handled[e] <= 1
        /\ (Proceeding(e) # {} => events[e].seen)

\* Two deliveries of one event id are in flight at once: one is about to run the
\* handler, the other was refused by the ledger.
C8_Witness ==
    /\ workers["w1"].pc = "handle" /\ workers["w2"].pc = "catch"
    /\ workers["w1"].op = workers["w2"].op /\ workers["w1"].sub = workers["w2"].sub
    /\ subs[workers["w1"].sub].status = "ACTIVE"

\* ------------------------------------------------------------ usage counters
\* C9: once every Record call made has returned, the value read for a
\* (subscription, component) in its current period is the number of Record(1)
\* calls made in that period, on top of the initial 0: no increment is lost,
\* also when the first calls found no counter row.
C9_NoLostIncrement ==
    (\A w \in Workers : ~Busy(w)) =>
        \A s \in SubIds, c \in Components :
            subs[s].ps # NULL =>
                UsageReads(subs, usage, s, c) = {CallsIn(recorded[s][c], subs[s].ps)}

\* The period of s that the last operation found had reached its last day or
\* its end.
PeriodWasDue(s) ==
    s \in ExpiringToday(last.preSubs, now) \/ PeriodExpired(last.preSubs, s, now)

\* C10: over Admit, Record, webhook deliveries and rollover passes, the value
\* read for a (subscription, component) does not decrease while the period stays
\* the same, and a positive value reads 0 afterwards only when the operation was
\* the rollover of a period that was due.
C10_ResetOnlyAtRollover ==
    last.op \in {"admit", "record", "failed", "rollover"} \cup EventTypes =>
        \A s \in SubIds, c \in Components :
            LET before == UsageReads(last.preSubs, last.preUsage, s, c)
                after == UsageReads(subs, usage, s, c)
            IN /\ (subs[s].ps = last.preSubs[s].ps /\ subs[s].pe = last.preSubs[s].pe =>
                     \A b \in before, a \in after : a >= b)
               /\ ((\E b \in before : b > 0) /\ 0 \in after =>
                     last.op = "rollover" /\ PeriodWasDue(s))

\* ------------------------------------------------------------ period rollover
\* The subscriptions the last rollover pass processed whose period had ended.
RolledOver ==
    {s \in SubIds : /\ last.op = "rollover"
                     /\ s \in ExpiringToday(last.preSubs, now)
                     /\ last.preSubs[s].pe <= now}

\* C11: a rollover pass that processed an ACTIVE subscription with
\* cancelAtPeriodEnd = false whose period had ended left it ACTIVE with a later
\* period window, every enabled component's current-period usage reads 0, and
\* the owner was sent a report holding, per enabled component, the usage of the
\* period that closed.
C11_RolloverRenews ==
    \A s \in RolledOver :
        ~last.preSubs[s].cape =>
            /\ subs[s].status = "ACTIVE"
            /\ subs[s].ps > last.preSubs[s].ps /\ subs[s].pe > last.preSubs[s].pe
            /\ \A c \in Components :
                  EnabledGrant(features, subs[s].planId, c) =>
                      UsageReads(subs, usage, s, c) = {0}
            /\ \E i \in DOMAIN last.mails :
                  /\ last.mails[i].kind = "monthly_report"
                  /\ last.mails[i].to = subs[s].userId
                  /\ \A c \in Components :
                        EnabledGrant(features, subs[s].planId, c) =>
                            last.mails[i].report[c]
                                \in UsageReads(last.preSubs, last.preUsage, s, c)

\* C12: a rollover pass that processed an ACTIVE subscription with
\* cancelAtPeriodEnd = true whose period had ended moved it to CANCELLED, opened
\* no new period for it, and an Admit of its owner is no longer served on it.
C12_CancelAtPeriodEnd ==
    \A s \in RolledOver :
        last.preSubs[s].cape =>
            /\ subs[s].status = "CANCELLED"
            /\ subs[s].ps = last.preSubs[s].ps /\ subs[s].pe = last.preSubs[s].pe
            /\ s \notin ActiveSubsOf(subs, subs[s].userId)

\* ------------------------------------------------- subscription lifecycle
\* The last operation was the first delivery of an activation event for a
\* PENDING subscription, and PayPal confirmed the subscription.
ActivatedPending ==
    /\ last.op = "ACTIVATED" /\ ~Redelivered /\ last.provider
    /\ last.preSubs[last.sub].status = "PENDING"

\* C13: the subscription a Subscribe creates is PENDING; an Admit of an owner
\* whose subscription is PENDING is denied; the activation event moves a PENDING
\* subscription to ACTIVE with the period [now, now + billing period) and one
\* counter of value 0 per enabled grant of its plan, and in that state the quota
\* gate admits the owner for every enabled component (of limit null or > 0).
C13_PendingThenActivated ==
    /\ last.op = "subscribe" /\ last.code = "ok" => subs[last.sub].status = "PENDING"
    /\ last.op = "admit" =>
         /\ (last.sub \in SubIds => subs[last.sub].status # "PENDING")
         /\ ((\A s \in SubIds : subs[s].userId = last.user => subs[s].status = "PENDING")
               => last.code = "NO_SUBSCRIPTION")
    /\ ActivatedPending =>
         LET s == last.sub
         IN /\ subs[s].status = "ACTIVE"
            /\ subs[s].ps = now /\ subs[s].pe = PeriodEnd(subs[s].planId, now)
            /\ s \in ActiveSubsOf(subs, subs[s].userId) /\ ~PeriodExpired(subs, s, now)
            /\ \A c \in Components :
                  EnabledGrant(features, subs[s].planId, c) =>
                      /\ Cardinality(MatchRows(usage, s, c, subs[s].ps, subs[s].pe)) = 1
                      /\ UsageReads(subs, usage, s, c) = {0}
                      /\ (features[subs[s].planId][c].limit # 0 =>
                            enforceQuota(features, subs, s, c, 0).code = "ALLOWED")

\* The activation event moved a PENDING subscription of the yearly plan to ACTIVE.
C13_Witness ==
    /\ ActivatedPending
    /\ subs[last.sub].status = "ACTIVE" /\ subs[last.sub].planId = "p2"
    /\ now > 0

\* C16: CANCELLED and EXPIRED are terminal: no operation changes the status of
\* a subscription it found CANCELLED or EXPIRED.
C16_TerminalStatus ==
    \A s \in SubIds :
        last.op # "none" /\ last.preSubs[s].status \in {"CANCELLED", "EXPIRED"} =>
            subs[s].status = last.preSubs[s].status

\* C19: an activation (the activation event or the activate endpoint) of a
\* subscription that is not PENDING leaves its status, its current period and
\* the usage read for each of its components unchanged.
C19_ActivationIgnored ==
    /\ last.op \in {"ACTIVATED", "activate"}
    /\ last.sub \in SubIds
    /\ last.preSubs[last.sub].status \notin {"NONE", "PENDING"}
    => /\ subs[last.sub] = last.preSubs[last.sub]
       /\ \A c \in Components :
             UsageReads(subs, usage, last.sub, c)
                 = UsageReads(last.preSubs, last.preUsage, last.sub, c)

\* ------------------------------------------------- threshold notifications
\* The e-mail announcing that usage reached b per cent of the limit.
BoundaryMail(b) ==
    IF b = 100 THEN "quota_exceeded" ELSE IF b = 90 THEN "quota_warning_90"
    ELSE "quota_warning_80"

\* An increment from prev to new crossed b per cent of the limit lim.
Crossed(b, lim, prev, new) == prev * 100 < b * lim /\ b * lim <= new * 100

\* C14: a Record on a bounded grant sends the notification of a boundary (80,
\* 90, 100 per cent) only when its increment crossed that boundary, it sends the
\* notification of the highest boundary it crossed, none when it crossed none,
\* and the periodic check sends no threshold notification.
C14_ThresholdOnce ==
    /\ last.op = "record" /\ last.code = "ok" =>
         LET f == features[subs[last.sub].planId][last.comp]
             kinds == {last.mails[i].kind : i \in DOMAIN last.mails}
         IN f.exists /\ f.limit # NULL /\ f.limit > 0 =>
              \A prev \in UsageReads(last.preSubs, last.preUsage, last.sub, last.comp),
                 new \in UsageReads(subs, usage, last.sub, last.comp) :
                  LET crossed == {b \in {80, 90, 100} : Crossed(b, f.limit, prev, new)}
                  IN /\ \A b \in {80, 90, 100} : BoundaryMail(b) \in kinds => b \in crossed
                     /\ (crossed = {} => last.mails = <<>>)
                     /\ (crossed # {} =>
                           /\ Len(last.mails) = 1
                           /\ \E b \in crossed :
                                 /\ \A b2 \in crossed : b2 <= b
                                 /\ last.mails[1].kind = BoundaryMail(b))
    /\ last.op = "warnings" => last.mails = <<>>

\* C15: each owner has at most one subscription whose status is PENDING or
\* ACTIVE, whatever Subscribe calls (also two at once), plan changes,
\* activations, cancels and webhook events were served.
C15_OneLiveSubscription ==
    \A u \in Users :
        Cardinality({s \in SubIds : /\ subs[s].userId = u
                                     /\ subs[s].status \in {"PENDING", "ACTIVE"}}) <= 1

\* ----------------------------------------------------------- stored grants
\* C17: the quota gate decides on the grant as plan_features holds it when the
\* request arrives: whatever the admin changed before (limit, enabled flag), an
\* Admit is denied FEATURE_NOT_AVAILABLE exactly when the stored grant is absent
\* or disabled, allowed when its stored limit is null, and otherwise compared
\* with, and answered with, the stored limit.
C17_StoredGrantDecides ==
    GateReached =>
        LET g == features[subs[last.sub].planId][last.comp]
        IN /\ (last.code = "FEATURE_NOT_AVAILABLE" <=> ~(g.exists /\ g.enabled))
           /\ (g.exists /\ g.enabled /\ g.limit = NULL =>
                 last.code = "ALLOWED" /\ last.limit = NULL)
           /\ (g.exists /\ g.enabled /\ g.limit # NULL =>
                 /\ last.limit = g.limit
                 /\ last.used \in UsageReads(subs, usage, last.sub, last.comp)
                 /\ (last.code = "QUOTA_EXCEEDED" <=> last.used >= g.limit)
                 /\ (last.code = "ALLOWED" <=> last.used < g.limit))

\* An Admit was denied on the limit the admin had lowered from 2 to 1.
C17_Witness ==
    /\ GateReached /\ last.code = "QUOTA_EXCEEDED" /\ last.comp = "c1"
    /\ last.used = 1 /\ last.limit = 1
    /\ SeedFeatures[subs[last.sub].planId]["c1"].limit = 2

\* C18: sequential Record calls of amounts a1..an on one (subscription,
\* component) within one period leave the usage read at 0 + a1 + ... + an, and
\* a Record that found no counter row of the current period left exactly one,
\* holding its amount.
C18_RecordAddsAmounts ==
    /\ \A s \in SubIds, c \in Components :
          subs[s].status # "NONE" /\ subs[s].ps # NULL =>
              UsageReads(subs, usage, s, c) = {CallsIn(recorded[s][c], subs[s].ps)}
    /\ last.op = "record" /\ last.code = "ok" =>
          LET s == last.sub
              before == MatchRows(last.preUsage, s, last.comp, subs[s].ps, subs[s].pe)
              after == MatchRows(usage, s, last.comp, subs[s].ps, subs[s].pe)
          IN /\ \A v \in UsageReads(last.preSubs, last.preUsage, s, last.comp) :
                   UsageReads(subs, usage, s, last.comp) = {v + last.amount}
             /\ (before = {} =>
                   /\ Cardinality(after) = 1
                   /\ \A i \in after : usage[i].value = last.amount)

\* A Record of amount 2 followed a Record of amount 1 that had found no counter
\* row for the component: the usage reads 3.
C18_Witness ==
    /\ last.op = "record" /\ last.code = "ok" /\ last.amount = 2
    /\ UsageReads(subs, usage, last.sub, last.comp) = {3}
    /\ \E i \in DOMAIN usage :
          /\ usage[i].sub = last.sub /\ usage[i].comp = last.comp
          /\ \A j \in DOMAIN usage : usage[j].ps = subs[last.sub].ps => j <= i
          /\ i > 1

\* C20: the payment event that returns a SUSPENDED subscription to ACTIVE leaves
\* the usage read for the current period of each of its components as it was.
C20_RecoveryKeepsCounters ==
    /\ last.op = "PAYMENT_COMPLETED" /\ ~Redelivered
    /\ last.preSubs[last.sub].status = "SUSPENDED"
    => /\ subs[last.sub].status = "ACTIVE"
       /\ \A c \in Components :
             UsageReads(subs, usage, last.sub, c)
                 = UsageReads(last.preSubs, last.preUsage, last.sub, c)

\* ------------------------------------------------------- payment failures
\* The events by which PayPal reports a failed payment.
FailureEvents == {"PAYMENT_FAILED", "SUSPENDED"}

\* C21: the first delivery of a payment-failure event for an ACTIVE subscription
\* moves it to SUSPENDED and sends its owner one notification, and an Admit of
\* an owner whose subscription is SUSPENDED is denied.
C21_PaymentFailureSuspends ==
    /\ last.op \in FailureEvents /\ ~Redelivered
       /\ last.preSubs[last.sub].status = "ACTIVE" =>
         /\ subs[last.sub].status = "SUSPENDED"
         /\ Len(last.mails) = 1
         /\ last.mails[1] = Mail("payment_failed", subs[last.sub].userId)
    /\ last.op = "admit" =>
         /\ (last.sub \in SubIds => subs[last.sub].status # "SUSPENDED")
         /\ ((\A s \in SubIds : subs[s].userId = last.user => subs[s].status = "SUSPENDED")
               => last.code = "NO_SUBSCRIPTION")

\* ------------------------------------------------------------------ expiry
\* One owner's subscription past its period end, with the daily reset job; time
\* passes and the job is run again and again (cron, daily at 00:00).
NextExpiry ==
    \/ Tick(MaxTime)
    \/ \E u \in Users, p \in PlanIds : Subscribe(u, p, TRUE, SeqSubs)
    \/ \E s \in SeqSubs : ActivateEndpoint(s, TRUE)
    \/ \E e \in PaymentEvents : WebhookPaypal(e, TRUE, MaxEvents + 1)
    \/ RolloverPass
    \/ \E u \in Users, c \in Components : Admit(u, c)

SpecExpiry ==
    Init /\ [][NextExpiry]_vars /\ WF_vars(Tick(MaxTime)) /\ WF_vars(RolloverPass)

\* The period of s has ended and s is still live. The code defines no grace
\* window; the property is stated for the shortest one, a single tick of the
\* clock past the period's end.
Lapsed(s) ==
    /\ subs[s].status \in {"PENDING", "ACTIVE", "SUSPENDED"}
    /\ subs[s].pe # NULL /\ now > subs[s].pe

\* C22: under a fair clock and a fair rollover scheduler, a PENDING, ACTIVE or
\* SUSPENDED subscription whose period ended a grace window of one tick ago
\* eventually has status EXPIRED, unless a renewal opens a period that has not
\* ended.
C22_EventuallyExpired ==
    \A s \in SeqSubs :
        Lapsed(s) ~> (subs[s].status = "EXPIRED" \/ (subs[s].pe # NULL /\ subs[s].pe > now))

\* ------------------------------------------------------------ user cancels
\* One owner's subscription, cancelled at once or at the period's end, while
\* requests are served up to the period's end and past it.
NextCancels ==
    \/ Tick(MaxTime)
    \/ \E u \in Users, p \in PlanIds : Subscribe(u, p, TRUE, SeqSubs)
    \/ \E s \in SeqSubs : ActivateEndpoint(s, TRUE)
    \/ \E s \in SeqSubs : WebhookPaypal(<<"SUSPENDED", s>>, TRUE, MaxEvents)
    \/ \E s \in SeqSubs, im \in BOOLEAN, ok \in BOOLEAN : UserCancel(s, im, ok)
    \/ \E u \in Users, c \in Components : Admit(u, c)
    \/ ExecuteOk

SpecCancels == Init /\ [][NextCancels]_vars

\* The last operation was a cancel that PayPal accepted; it was immediate exactly
\* when it left cancelAtPeriodEnd = false.
Cancelled == last.op = "cancel" /\ last.code = "ok"

\* C23: a cancel with immediate = false of an ACTIVE subscription leaves its
\* status ACTIVE and its period as they were and sets cancelAtPeriodEnd = true,
\* and the quota gate then decides an Admit of its owner as it would without the
\* flag while the period has not ended; a cancel with immediate = true of an
\* ACTIVE or SUSPENDED subscription sets status CANCELLED and sends the owner
\* one notification.
C23_UserCancel ==
    /\ Cancelled /\ subs[last.sub].cape /\ last.preSubs[last.sub].status = "ACTIVE" =>
         /\ subs[last.sub] = [last.preSubs[last.sub] EXCEPT !.cape = TRUE]
         /\ usage = last.preUsage
         /\ last.sub \in ActiveSubsOf(subs, subs[last.sub].userId)
    /\ Cancelled /\ ~subs[last.sub].cape
       /\ last.preSubs[last.sub].status \in {"ACTIVE", "SUSPENDED"} =>
         /\ subs[last.sub].status = "CANCELLED"
         /\ last.mails = <<Mail("cancellation", subs[last.sub].userId)>>
    /\ last.op = "admit" =>
         \A s \in SubIds :
             subs[s].userId = last.user /\ subs[s].status = "ACTIVE" /\ subs[s].cape
             /\ ~PeriodExpired(subs, s, now) =>
                 /\ last.sub = s
                 /\ last.used \in {NULL} \cup UsageReads(subs, usage, s, last.comp)
                 /\ last.code =
                      enforceQuota(features, [subs EXCEPT ![s].cape = FALSE], s, last.comp,
                                   IF last.used = NULL THEN 0 ELSE last.used).code

\* An Admit was allowed before the period's end on an ACTIVE subscription that
\* holds usage and was cancelled with immediate = false.
C23_Witness ==
    /\ last.op = "admit" /\ last.code = "ALLOWED" /\ last.sub \in SubIds
    /\ subs[last.sub].status = "ACTIVE" /\ subs[last.sub].cape
    /\ last.used = 1 /\ now > subs[last.sub].ps /\ now < subs[last.sub].pe

\* ------------------------------------------------------- the gate's reads
\* A metered request whose checkSubscription or enforceQuota caught an error of
\* a database read: the catch block answers 500.
AdmitError(u, c) ==
    /\ req.phase = "idle"
    /\ last' = [Answer("admit", "none", c, "error", <<>>) EXCEPT !.user = u]
    /\ UNCHANGED <<now, features, subs, usage, events, usageUnique, req, recorded, handled,
                   workers>>

\* GET /api/subscriptions/:id/check-feature/:componentSlug
CheckFeature(s, c) ==
    /\ \E used \in UsageReads(subs, usage, s, c) :
         LET a == hasFeatureAccess(features, subs, s, c, used)
         IN last' = [Answer("check-feature", s, c, IF a.hasAccess THEN "ALLOWED" ELSE "denied",
                            <<>>) EXCEPT !.used = a.used, !.limit = a.limit]
    /\ UNCHANGED <<now, features, subs, usage, events, usageUnique, req, recorded, handled,
                   workers>>

\* One owner's subscription and the two gates, over a whole period and past it.
NextGate ==
    \/ Tick(MaxTime)
    \/ \E u \in Users, p \in PlanIds : Subscribe(u, p, TRUE, SeqSubs)
    \/ \E s \in SeqSubs : ActivateEndpoint(s, TRUE)
    \/ \E u \in Users, c \in Components : Admit(u, c)
    \/ \E u \in Users, c \in Components : AdmitError(u, c)
    \/ \E s \in SeqSubs, c \in Components : CheckFeature(s, c)
    \/ ExecuteOk
    \/ ExecuteFail

SpecGate == Init /\ [][NextGate]_vars

\* C24: an Admit, whatever its outcome (allowed, no subscription, expired,
\* feature denied, quota denied, error), and a hasFeatureAccess call leave every
\* subscription row and every usage row as they found them.
C24_GateReadsOnly ==
    last.op \in {"admit", "check-feature"} =>
        /\ subs = last.preSubs
        /\ usage = last.preUsage
        /\ \A s \in SubIds, c \in Components :
              UsageReads(subs, usage, s, c)
                  = UsageReads(last.preSubs, last.preUsage, s, c)

\* An Admit was allowed at usage 1 of limit 2: the counter still reads 1.
C24_Witness ==
    /\ last.op = "admit" /\ last.code = "ALLOWED" /\ last.used = 1 /\ last.limit = 2
    /\ UsageReads(subs, usage, last.sub, last.comp) = {1}
    /\ req.phase = "admitted"

\* --------------------------------------------------------- failed requests
\* C25: a request that was admitted and whose component failed, or whose input
\* was rejected, leaves every usage row and the usage read for every component
\* as it found them, and the usage read for a (subscription, component) in its
\* current period is the number of requests that completed in it.
C25_FailedNotRecorded ==
    /\ last.op = "failed" =>
         /\ usage = last.preUsage /\ subs = last.preSubs
         /\ \A c \in Components :
               UsageReads(subs, usage, last.sub, c)
                   = UsageReads(last.preSubs, last.preUsage, last.sub, c)
    /\ \A s \in SubIds, c \in Components :
          subs[s].ps # NULL =>
              UsageReads(subs, usage, s, c) = {CallsIn(recorded[s][c], subs[s].ps)}

\* A request was admitted at usage 1 and its component failed: the usage still
\* reads 1, the one request that completed.
C25_Witness ==
    /\ last.op = "failed" /\ last.comp = "c1"
    /\ UsageReads(subs, usage, last.sub, "c1") = {1}
    /\ CallsIn(recorded[last.sub]["c1"], subs[last.sub].ps) = 1
    /\ req.phase = "idle"

\* ------------------------------------------------------------- overshoot
\* The requests served in one period while the overshoot is observed.
MaxCalls == 2 * MaxUse + 1

\* The admin grants c2 on plan p1 with the limit 2.
GrantC2 == Body(TRUE, TRUE, TRUE, 2)

\* Metered requests for a component granted after activation, at most
\* Cardinality(Workers) of them between enforceQuota and the end of incrementUsage.
NextOvershoot ==
    \/ \E u \in Users : Subscribe(u, "p1", TRUE, SeqSubs)
    \/ \E s \in SeqSubs : ActivateEndpoint(s, TRUE)
    \/ AdminSetFeature("p1", "c2", GrantC2)
    \/ \E w \in Workers, u \in Users : Request(w, u, "c2", MaxCalls)
    \/ \E w \in Workers : FindSubscription(w)
    \/ \E w \in Workers : FindRow(w)
    \/ \E w \in Workers : WriteRow(w)
    \/ \E w \in Workers : WarnQuota(w)

SpecOvershoot == InitRequests /\ [][NextOvershoot]_vars

\* C26: with at most N = Cardinality(Workers) requests between Admit and the end
\* of their Record(1) at any time, the value read for a (subscription, component)
\* whose grant has the limit L never exceeds L + N - 1.
C26_BoundedOvershoot ==
    \A s \in SubIds, c \in Components :
        LET f == features[subs[s].planId][c]
        IN subs[s].status # "NONE" /\ EnabledGrant(features, subs[s].planId, c)
           /\ f.limit # NULL =>
             \A v \in UsageReads(subs, usage, s, c) :
                 v <= f.limit + Cardinality(Workers) - 1

\* ------------------------------------------------------ the pass's selection
\* The subscriptions whose period has ended at time t and is to be rolled over.
Due(sb, t) ==
    {s \in SubIds : /\ sb[s].status \in {"ACTIVE", "SUSPENDED"}
                    /\ sb[s].pe # NULL /\ sb[s].pe <= t}

\* C27: a rollover pass run at time now processes exactly the subscriptions that
\* are ACTIVE or SUSPENDED and whose period end is <= now, however long ago the
\* period ended: each of them gets a period starting now, and every other
\* subscription, one whose period ends after now included, is left as it was.
C27_PassSelectsDue ==
    last.op = "rollover" =>
        /\ ExpiringToday(last.preSubs, now) = Due(last.preSubs, now)
        /\ \A s \in SubIds :
              IF s \in Due(last.preSubs, now) THEN subs[s].ps = now
              ELSE subs[s] = last.preSubs[s]

\* ------------------------------------------------------ failures in a pass
\* The owners whose subscriptions one pass processes.
Owners == {"u1", "u2"}

\* The cron run of resetMonthlyQuotas while the database refuses the reads for
\* the subscriptions in fails.
RolloverPassFailing(fails) ==
    /\ LET r == resetMonthlyQuotas(features, subs, usage, usageUnique, now, fails)
       IN /\ subs' = r.subs /\ usage' = r.usage
          /\ last' = [Answer("rollover", "none", "none", "ok", r.sent) EXCEPT
                          !.failed = fails \cap ExpiringToday(subs, now)]
    /\ Len(usage') <= 2 * MaxRows
    /\ UNCHANGED <<now, features, events, usageUnique, req, recorded, handled, workers>>

\* Two owners' subscriptions on the monthly plan and the daily reset job.
NextPasses ==
    \/ Tick(MaxTime)
    \/ \E u \in Owners : Subscribe(u, "p1", TRUE, SubIds)
    \/ \E s \in SubIds : ActivateEndpoint(s, TRUE)
    \/ \E fails \in SUBSET SubIds : RolloverPassFailing(fails)

SpecPasses == Init /\ [][NextPasses]_vars

\* C28: in a rollover pass, every selected subscription other than the ones the
\* pass failed on is rolled over (a period starting now, every enabled
\* component's usage reading 0, its owner sent the report), whether it comes
\* before or after a failing one in the order of processing.
C28_FailureIsolated ==
    last.op = "rollover" =>
        \A s \in ExpiringToday(last.preSubs, now) \ last.failed :
            /\ subs[s].ps = now /\ subs[s].pe = PeriodEnd(subs[s].planId, now)
            /\ \A c \in Components :
                  EnabledGrant(features, subs[s].planId, c) =>
                      /\ MatchRows(usage, s, c, subs[s].ps, subs[s].pe) # {}
                      /\ UsageReads(subs, usage, s, c) = {0}
            /\ \E i \in DOMAIN last.mails :
                  last.mails[i].kind = "monthly_report"
                  /\ last.mails[i].to = subs[s].userId

\* A pass failed on the first of two due subscriptions and rolled the second
\* over.
C28_Witness ==
    /\ last.op = "rollover" /\ last.failed = {"s1"}
    /\ "s2" \in ExpiringToday(last.preSubs, now)
    /\ subs["s2"].ps = now /\ subs["s1"].ps < now

\* ------------------------------------------- rollover against the requests
\* resetMonthlyQuotas reaches subscription s in its loop on worker w: findMany
\* selected it and getCurrentPeriodUsage read the closing period's usage.
StartReset(w, s) ==
    /\ ~Busy(w)
    /\ s \in ExpiringToday(subs, now)
    /\ workers' = [workers EXCEPT ![w] =
                      [Free EXCEPT !.pc = "period", !.op = "rollover", !.sub = s,
                                   !.mails = <<Report(subs[s].userId,
                                                      getCurrentPeriodUsage(features, subs,
                                                                            usage, s, now))>>]]
    /\ UNCHANGED <<now, features, subs, usage, events, usageUnique, req, recorded, handled,
                   last>>

\* The loop's subscription.update: the new period window is written.
UpdatePeriod(w) ==
    /\ workers[w].pc = "period"
    /\ LET s == workers[w].sub
           pe == PeriodEnd(subs[s].planId, now)
       IN /\ subs' = [subs EXCEPT ![s].ps = now, ![s].pe = pe]
          /\ workers' = [workers EXCEPT ![w].pc = "init", ![w].ps = now, ![w].pe = pe]
    /\ UNCHANGED <<now, features, usage, events, usageUnique, req, recorded, handled, last>>

\* The loop's initializeUsageForSubscription (createMany), then the report; a
\* createMany that throws lands in the loop's catch.
InitCounters(w) ==
    /\ workers[w].pc = "init"
    /\ LET k == workers[w]
           init == initializeUsageForSubscription(features, subs, usage, usageUnique, k.sub,
                                                  k.ps, k.pe)
       IN /\ usage' = init.usage
          /\ last' = IF init.ok THEN Reply(k, "ok", k.mails) ELSE Reply(k, "error", <<>>)
    /\ Len(usage') <= MaxRows + 1
    /\ workers' = [workers EXCEPT ![w] = Free]
    /\ UNCHANGED <<now, features, subs, events, usageUnique, req, recorded, handled>>

\* One owner's subscription: the reset job on one worker, one metered request
\* at a time on the other, statement by statement, on either build of the table;
\* no activation arrives while the job is at work.
NextRollover ==
    \/ Tick(MaxTime)
    \/ \E u \in Users : Subscribe(u, "p1", TRUE, SeqSubs)
    \/ \E s \in SeqSubs : ~Busy("w2") /\ ActivateEndpoint(s, TRUE)
    \/ \E s \in SeqSubs : StartReset("w2", s)
    \/ UpdatePeriod("w2")
    \/ InitCounters("w2")
    \/ \E u \in Users : Admit(u, "c1")
    \/ ExecuteFail
    \/ \E u \in Users : Request("w1", u, "c1", MaxUse)
    \/ FindSubscription("w1")
    \/ FindRow("w1")
    \/ WriteRow("w1")
    \/ WarnQuota("w1")

SpecRollover == InitRequests /\ [][NextRollover]_vars

\* C29: with the rollover of a subscription running beside one request: an
\* Admit that reached the quota gate found the counter row of the period window
\* it read; the rollover's counter initialisation did not fail; and once the
\* rollover and the Record have returned, the usage read for the current period
\* is the number of Record(1) calls made in it.
C29_RolloverBeforeCounters ==
    /\ GateReached /\ EnabledGrant(features, subs[last.sub].planId, last.comp)
       /\ subs = last.preSubs =>
         MatchRows(usage, last.sub, last.comp, subs[last.sub].ps, subs[last.sub].pe) # {}
    /\ last.op = "rollover" => last.code = "ok"
    /\ (\A w \in Workers : ~Busy(w)) =>
         \A s \in SubIds :
             subs[s].ps # NULL =>
                 UsageReads(subs, usage, s, "c1") = {CallsIn(recorded[s]["c1"], subs[s].ps)}

\* ------------------------------------------------------ one counter a period
\* C30: in every state reached by activations, rollovers and Records in any
\* interleaving, a (subscription, component) has at most one usage row for the
\* subscription's current period, and an ACTIVE subscription has exactly one
\* for each enabled grant of its plan (no grant is edited after activation).
C30_OneLiveCounter ==
    \A s \in SubIds, c \in Components :
        subs[s].ps # NULL =>
            /\ Cardinality(MatchRows(usage, s, c, subs[s].ps, subs[s].pe)) <= 1
            /\ (subs[s].status = "ACTIVE" /\ EnabledGrant(features, subs[s].planId, c) =>
                  Cardinality(MatchRows(usage, s, c, subs[s].ps, subs[s].pe)) = 1)

\* ------------------------------------------- a cancel against the webhooks
\* POST /api/subscriptions/:id/cancel reaches worker w: cancelSubscription's
\* subscription.findUnique reads the row; it throws when there is none.
StartCancel(w, s, immediate) ==
    /\ FirstFree(w)
    /\ IF ~Found(subs, s)
       THEN /\ workers' = workers
            /\ last' = Answer("cancel", s, "none", "error", <<>>)
       ELSE /\ workers' = [workers EXCEPT ![w] =
                              [Free EXCEPT !.pc = "cancel", !.op = "cancel", !.sub = s,
                                           !.user = subs[s].userId,
                                           !.status = subs[s].status,
                                           !.immediate = immediate]]
            /\ last' = last
    /\ UNCHANGED <<now, features, subs, usage, events, usageUnique, req, recorded, handled>>

\* cancelSubscription after its read: paypalService.cancelSubscription, then
\* subscription.update with status: cancelImmediately ? 'CANCELLED' :
\* subscription.status (the row as it was read), then the cancellation e-mail.
WriteCancel(w, paypalOk) ==
    /\ workers[w].pc = "cancel"
    /\ LET k == workers[w]
       IN IF ~paypalOk
          THEN /\ subs' = subs
               /\ last' = Answer("cancel", k.sub, "none", "error", <<>>)
          ELSE /\ subs' = [subs EXCEPT
                             ![k.sub].status = IF k.immediate THEN "CANCELLED" ELSE k.status,
                             ![k.sub].cape = ~k.immediate]
               /\ last' = Answer("cancel", k.sub, "none", "ok",
                                 <<Mail("cancellation", k.user)>>)
    /\ workers' = [workers EXCEPT ![w] = Free]
    /\ UNCHANGED <<now, features, usage, events, usageUnique, req, recorded, handled>>

\* The events PayPal sends about a subscription's status.
StatusEvents == {"CANCELLED", "SUSPENDED"} \X SeqSubs

\* One owner's subscription: cancels served statement by statement while
\* PayPal's status events for it are handled; no activation arrives while a
\* cancel is at work.
NextSerial ==
    \/ \E u \in Users : Subscribe(u, "p1", TRUE, SeqSubs)
    \/ \E s \in SeqSubs : (\A w \in Workers : ~Busy(w)) /\ ActivateEndpoint(s, TRUE)
    \/ \E w \in Workers, s \in SeqSubs, im \in BOOLEAN : StartCancel(w, s, im)
    \/ \E w \in Workers, ok \in BOOLEAN : WriteCancel(w, ok)
    \/ \E e \in StatusEvents : WebhookPaypal(e, TRUE, MaxEvents + 1)

SpecSerial == Init /\ [][NextSerial]_vars

\* C31: a cancel that PayPal accepted with immediate = false leaves the status
\* its update found in the row: it never writes back a status it read before an
\* event for the same subscription changed it, so the final status is that of
\* the cancel and the event applied one after the other.
C31_CancelSerialized ==
    Cancelled /\ subs[last.sub].cape =>
        subs[last.sub].status = last.preSubs[last.sub].status

\* ---------------------------------------------------- the webhook's answer
\* C32: every delivery of an event with a valid signature is acknowledged (200
\* received), also a second delivery of an event id already in the ledger and
\* an event that does not fit the subscription's state.
C32_DeliveryAcknowledged ==
    Delivered => last.code = "received"

\* ------------------------------------------------------- failed handlings
\* The last operation was the first delivery of an ACTIVATED event whose
\* activateSubscription threw: no such subscription, or PayPal's lookup failed.
ActivationFailed ==
    /\ last.op = "ACTIVATED" /\ ~Redelivered
    /\ ~activateSubscription(features, last.preSubs, last.preUsage, usageUnique, last.sub,
                             now, last.provider).ok

\* C33: an ACTIVATED event whose activation threw is not recorded as processed
\* in the ledger, so that it can be handled again.
C33_FailedStaysRetryable ==
    ActivationFailed => ~events[<<last.op, last.sub>>].processed

\* ------------------------------------------------------- ended periods
\* C34: a request that finds an ACTIVE subscription whose currentPeriodEnd is
\* earlier than now is denied with SUBSCRIPTION_EXPIRED, and a request is
\* admitted only on a subscription whose period has not ended.
C34_ExpiredDenied ==
    last.op = "admit" /\ last.sub \in SubIds =>
        /\ (subs[last.sub].pe # NULL /\ subs[last.sub].pe < now =>
              last.code = "SUBSCRIPTION_EXPIRED")
        /\ (last.code = "ALLOWED" =>
              subs[last.sub].pe # NULL /\ now <= subs[last.sub].pe)

\* A request was denied as expired on an ACTIVE subscription whose plan grants
\* the component and whose usage is below the limit.
C34_Witness ==
    /\ last.op = "admit" /\ last.code = "SUBSCRIPTION_EXPIRED" /\ last.comp = "c1"
    /\ subs[last.sub].status = "ACTIVE" /\ now > subs[last.sub].pe
    /\ EnabledGrant(features, subs[last.sub].planId, "c1")
    /\ \E i \in DOMAIN usage :
         /\ usage[i].sub = last.sub /\ usage[i].comp = "c1"
         /\ usage[i].ps = subs[last.sub].ps /\ usage[i].value = 1

\* ------------------------------------------------------ the processed flag
\* C35: a delivery leaves every event row that was processed = true as it was:
\* still processed, and with no error message attached to it.
C35_ProcessedMonotonic ==
    Delivered =>
        \A e \in EventIds :
            last.preEvents[e].processed => events[e].processed /\ ~events[e].error

\* --------------------------------------------------- rejected deliveries
\* The route writing the ledger row before it verifies the signature.
WebhookUnsignedLogged(e) ==
    /\ events' = payPalEventCreate(events, e).events
    /\ last' = Answer(e[1], e[2], "none", "invalid", <<>>)
    /\ UNCHANGED <<now, features, subs, usage, usageUnique, req, recorded, handled, workers>>

\* POST /webhooks/paypal for event e when verifyWebhookSignature answers false
\* (the verification failed, or the call to PayPal threw): 401, before any write.
WebhookUnsigned(e) ==
    /\ last' = Answer(e[1], e[2], "none", "invalid", <<>>)
    /\ UNCHANGED <<now, features, subs, usage, events, usageUnique, req, recorded, handled,
                   workers>>

\* One owner's subscription and PayPal's events for it, delivered with a valid
\* signature or without one.
NextSignatures ==
    \/ Tick(MaxRaceTime)
    \/ \E u \in Users, p \in PlanIds : Subscribe(u, p, TRUE, SeqSubs)
    \/ \E s \in SeqSubs : ActivateEndpoint(s, TRUE)
    \/ \E e \in EventTypes \X SeqSubs, ok \in BOOLEAN : WebhookPaypal(e, ok, MaxEvents + 1)
    \/ \E e \in EventTypes \X SeqSubs : WebhookUnsigned(e)

SpecSignatures == Init /\ [][NextSignatures]_vars

\* C36: a delivery whose signature is not verified leaves the ledger, the
\* subscriptions and the usage counters as it found them and sends no e-mail.
C36_UnsignedChangesNothing ==
    last.code = "invalid" =>
        /\ events = last.preEvents
        /\ subs = last.preSubs
        /\ usage = last.preUsage
        /\ last.mails = <<>>

\* An ACTIVATED event for a PENDING subscription, not yet in the ledger, was
\* rejected for its signature.
C36_Witness ==
    /\ last.code = "invalid" /\ last.op = "ACTIVATED"
    /\ subs[last.sub].status = "PENDING"
    /\ ~events[<<last.op, last.sub>>].seen

\* ------------------------------------------------ the three admission tests
\* C37: for every ACTIVE subscription whose period has not ended, every
\* component and every stored grant and usage, enforceQuota admits exactly when
\* hasFeatureAccess answers hasAccess = true and exactly when isQuotaExceeded
\* answers false, each of the three reading the usage for itself.
C37_GatesAgree ==
    \A s \in SubIds, c \in Components :
        subs[s].status = "ACTIVE" /\ ~PeriodExpired(subs, s, now) =>
            \A u1, u2, u3 \in UsageReads(subs, usage, s, c) :
                /\ (enforceQuota(features, subs, s, c, u1).code = "ALLOWED")
                     = hasFeatureAccess(features, subs, s, c, u2).hasAccess
                /\ (enforceQuota(features, subs, s, c, u1).code = "ALLOWED")
                     = ~isQuotaExceeded(features, subs, s, c, u3)

\* An ACTIVE subscription whose usage of c1 stands at the limit of its grant:
\* the request was denied, hasFeatureAccess denies and the quota is exceeded.
C37_Witness ==
    /\ last.op = "admit" /\ last.code = "QUOTA_EXCEEDED" /\ last.comp = "c1"
    /\ subs[last.sub].status = "ACTIVE"
    /\ last.used = features[subs[last.sub].planId]["c1"].limit
    /\ ~hasFeatureAccess(features, subs, last.sub, "c1", last.used).hasAccess
    /\ isQuotaExceeded(features, subs, last.sub, "c1", last.used)

\* ------------------------------------------------------ failing subscribes
\* createSubscription writing its row before it asks PayPal for the subscription.
createSubscriptionRowFirst(sb, s, u, p, planOk, userOk, paypalOk) ==
    IF ~planOk \/ (\E x \in SubIds : sb[x].userId = u /\ sb[x].status \in {"ACTIVE", "PENDING"})
       \/ ~userOk
    THEN [ok |-> FALSE, subs |-> sb]
    ELSE [ok |-> paypalOk,
          subs |-> [sb EXCEPT ![s] = [NoSub EXCEPT !.status = "PENDING", !.userId = u,
                                                   !.planId = p]]]

\* SubscriptionService.createSubscription for user u and plan p, the new row
\* taking id s.  planOk: the plan exists and is active; userOk: the user exists;
\* paypalOk: paypalService.createSubscription answered.  ok = FALSE: it threw.
createSubscription(sb, s, u, p, planOk, userOk, paypalOk) ==
    IF ~planOk \/ (\E x \in SubIds : sb[x].userId = u /\ sb[x].status \in {"ACTIVE", "PENDING"})
       \/ ~userOk \/ ~paypalOk
    THEN [ok |-> FALSE, subs |-> sb]
    ELSE [ok |-> TRUE,
          subs |-> [sb EXCEPT ![s] = [NoSub EXCEPT !.status = "PENDING", !.userId = u,
                                                   !.planId = p]]]

\* POST /api/subscriptions/create, for any plan id and user id; the new row
\* takes the next id.
SubscribeAny(u, p, planOk, userOk, paypalOk) ==
    /\ \E s \in FreeRows :
         /\ \A s2 \in FreeRows : s2 = s \/ s = "s1"
         /\ LET r == createSubscription(subs, s, u, p, planOk, userOk, paypalOk)
            IN /\ subs' = r.subs
               /\ last' = Answer("subscribe", IF r.ok THEN s ELSE "none", "none",
                                 IF r.ok THEN "ok" ELSE "error", <<>>)
    /\ UNCHANGED <<now, features, usage, events, usageUnique, req, recorded, handled, workers>>

\* One owner subscribing, with plans, users and PayPal failing at will, between
\* activations, cancels and plan changes.
NextSubscribes ==
    \/ \E u \in Users, p \in PlanIds, planOk \in BOOLEAN, userOk \in BOOLEAN, ok \in BOOLEAN :
         SubscribeAny(u, p, planOk, userOk, ok)
    \/ \E s \in SubIds : ActivateEndpoint(s, TRUE)
    \/ \E s \in SubIds, im \in BOOLEAN : UserCancel(s, im, TRUE)
    \/ \E s \in SubIds, p \in PlanIds : ChangePlan(s, p, TRUE)

SpecSubscribes == Init /\ [][NextSubscribes]_vars

\* C38: a Subscribe that fails leaves the subscriptions table as it found it:
\* no row is created and no existing row changes.
C38_FailedSubscribe ==
    last.op = "subscribe" /\ last.code = "error" => subs = last.preSubs

\* A Subscribe failed for an owner who holds an ACTIVE subscription while a
\* row id was still free.
C38_Witness ==
    /\ last.op = "subscribe" /\ last.code = "error"
    /\ subs["s1"].status = "ACTIVE" /\ subs["s2"].status = "NONE"

\* ------------------------------------------------- one advance a cycle
\* One owner's monthly subscription over the end of its first period: the daily
\* reset job and PayPal's payment event for the renewal, with requests recorded
\* in between; the subscription is activated once.
NextCycles ==
    \/ Tick(MaxTime)
    \/ \E u \in Users : Subscribe(u, "p1", TRUE, SeqSubs)
    \/ \E s \in SeqSubs : subs[s].status = "PENDING" /\ ActivateEndpoint(s, TRUE)
    \/ RolloverPass
    \/ \E s \in SeqSubs : WebhookPaypalUpTo(<<"PAYMENT_COMPLETED", s>>, TRUE, MaxEvents,
                                            MaxRows + 1)
    \/ \E s \in SeqSubs : Record(s, "c1", 1)

SpecCycles == Init /\ [][NextCycles]_vars

\* The period of s that the last operation found had been opened earlier the
\* same day as the renewal of a period before it: the cycle has been advanced.
RenewedToday(s) ==
    /\ last.preSubs[s].status = "ACTIVE" /\ last.preSubs[s].ps # NULL
    /\ last.preSubs[s].ps >= startOfDay(now)
    /\ \E i \in DOMAIN last.preUsage :
         last.preUsage[i].sub = s /\ last.preUsage[i].ps < last.preSubs[s].ps

\* C39: a rollover pass or a payment-completed event that finds the period of
\* the cycle already advanced leaves the period window as it is and the usage
\* recorded in it as it reads.
C39_OneAdvancePerCycle ==
    last.op \in {"rollover", "PAYMENT_COMPLETED"} =>
        \A s \in SubIds :
            RenewedToday(s) =>
                /\ subs[s].ps = last.preSubs[s].ps /\ subs[s].pe = last.preSubs[s].pe
                /\ \A c \in Components :
                      UsageReads(subs, usage, s, c)
                          = UsageReads(last.preSubs, last.preUsage, s, c)

====
